---- MODULE Spec2Model ----
(***************************************************************************)
(* Model of the room-sublist resizer of matrix-react-sdk:                  *)
(* src/resizer/distributors/roomsublist2.js (classes Layout, Handle).      *)
(*                                                                         *)
(* JavaScript numbers are modelled as IEEE 754 doubles, <<s, h, l, e>>    *)
(* (sign, the two limbs of the 53-bit significand, exponent), with the     *)
(* rounding of +, - and / that the code's arithmetic has; see the section  *)
(* on JavaScript numbers.                                                  *)
(*                                                                         *)
(* Section indices are 0-based where the code stores them (Handle._anchor, *)
(* the result of _getSectionIndex); the lists handed to _applyOverflow and *)
(* the in-progress heights are TLA+ sequences and are indexed from 1, so   *)
(* the code's index i is position i + 1.                                   *)
(***************************************************************************)
EXTENDS Integers, Sequences, FiniteSets, TLC

VARIABLES
    sections,        \* Layout._sections: sequence of [id, count]
    collapsedState,  \* Layout._collapsedState: id -> BOOLEAN (missing = falsy)
    availableHeight, \* Layout._availableHeight
    sectionHeights,  \* Layout._sectionHeights: id -> number or undefined (committed)
    heights,         \* Layout._heights: in-progress heights, by position
    handles,         \* the Handle objects the caller holds, by slot
    applied,         \* calls of the applyHeight callback made by the last operation
    lastOp,          \* the last public operation called and its arguments
    prevOp,          \* the Handle call the last operation came right after, if any
    budget,          \* number of operations the caller (the user of the
                     \* dialog) may still call
    internal,        \* what the last operation did inside: its _relayout runs,
                     \* its _applyOverflow calls, the value _relayout returned
    dialog,          \* ExportDialog: the state of its useState hooks
    exporter,        \* the exporter last constructed (by the dialog or by the
                     \* export test), or the error its constructor threw
    promises         \* ExportDialog: the promises its handlers and callbacks
                     \* await: of Field.validate(), export(), cancelExport()

layoutVars == <<sections, collapsedState, availableHeight, sectionHeights, heights,
                handles, applied, lastOp, prevOp, budget, internal>>

exportVars == <<dialog, exporter, promises>>

vars == <<layoutVars, exportVars>>

-----------------------------------------------------------------------------
(* Bounds of the model and the inputs the operations are called with.      *)

\* Operations called on one Layout: from construction (Spec), and on a
\* three-section list that is already laid out (SpecDrag)
MaxOps == 3

MaxDragOps == 5

\* Operations called on one Layout from construction on (SpecResize)
MaxResizeOps == 3

\* Handle operations on the four-section list (SpecOrder)
MaxOrderOps == 4

\* Operations on a laid-out list whose container is resized (SpecStale)
MaxStaleOps == 4

\* Edits, clicks and test constructions on one export dialog (SpecExport)
MaxExportOps == 5

\* Every id the maps _sectionHeights and _collapsedState are asked for
SectionIds == {"A", "B", "C"}

\* Spec: the sections the host lists, their item counts, the container heights
ListedIds == {"A", "B"}

Counts == {0, 3}

AvailableHeights == {150, 400}

\* Spec: the heights asked of setHeight and expandSection
Heights == {50, 120}

\* SpecDrag: the list, the container height and the heights asked of setHeight
DragSections == <<[id |-> "A", count |-> 3], [id |-> "B", count |-> 3],
                  [id |-> "C", count |-> 3]>>

DragHeights == {50, 120, 200}

-----------------------------------------------------------------------------
(* JavaScript numbers: IEEE 754 doubles, rounded to nearest, ties to even.  *)
(* A number is a tuple <<s, h, l, e>>.  A finite number other than 0 has    *)
(* the sign s in {1, -1}, the 53-bit significand h * 2^25 + l with h in     *)
(* 2^27 .. 2^28 - 1 and l in 0 .. 2^25 - 1, and the exponent e in           *)
(* -1022 .. 1023: its value is s * (h * 2^25 + l) * 2^(e - 52).  0 is       *)
(* <<0,0,0,0>> (-0 is not told apart from 0: the code never divides by a    *)
(* height), +Infinity <<1,0,0,1024>>, -Infinity <<-1,0,0,1024>>, NaN        *)
(* <<0,0,0,1024>>.  `undefined` (a missing property of _sectionHeights) is  *)
(* <<0,0,0,-1>>.  Every value has one tuple, so = on tuples is === on       *)
(* numbers except for NaN.  Subnormal results (below 2^-1022) are out of    *)
(* the reach of a bounded run and are not rounded again.                    *)

undefined == <<0, 0, 0, -1>>

NaN == <<0, 0, 0, 1024>>

Infinity == <<1, 0, 0, 1024>>

Zero == <<0, 0, 0, 0>>

\* The significand is kept in two limbs that fit TLC's 32-bit integers
LimbHi == 2^27

LimbLo == 2^25

\* The low limb of a significand carrying three more bits (guard, round, sticky)
LimbExt == 2^28

IntAbs(n) == IF n < 0 THEN -n ELSE n

\* floor(log2(n)) of an integer n in 1 .. 2^31 - 1
Log2(n) == CHOOSE k \in 0..30 : 2^k <= n /\ n \div 2 < 2^k

\* Sets the sticky bit of a low limb when bits were shifted out of it
Sticky(lo, lost) == IF lost /\ lo % 2 = 0 THEN lo + 1 ELSE lo

\* A result of exponent e: beyond the largest double it is an infinity
Pack(s, hi, lo, e) == IF e > 1023 THEN <<s, 0, 0, 1024>> ELSE <<s, hi, lo, e>>

\* Whether the three low bits of an extended low limb round up: to nearest,
\* ties to even
RoundsUp(lo) == lo % 8 > 4 \/ (lo % 8 = 4 /\ (lo \div 8) % 2 = 1)

\* The significand hi * 2^25 + lo after rounding, lo in 0 .. 2^25: a carry
\* out of the low limb goes to the high limb, one out of the high limb to
\* the exponent
Carry(s, hi, lo, e) ==
    IF lo < LimbLo THEN Pack(s, hi, lo, e)
    ELSE IF hi + 1 < 2 * LimbHi THEN Pack(s, hi + 1, 0, e)
    ELSE Pack(s, LimbHi, 0, e + 1)

\* The number of sign s whose extended significand hi * 2^28 + lo has hi in
\* 2^27 .. 2^28 - 1: the three low bits are rounded away
Round(s, hi, lo, e) ==
    Carry(s, hi, (lo \div 8) + (IF RoundsUp(lo) THEN 1 ELSE 0), e)

\* The extended significand h * 2^28 + l with h < 2^28, shifted left by n
\* bits so that its leading bit is bit 27 of the high limb, then rounded
ShiftLeft(s, h, l, e, n) ==
    Round(s, h * 2^n + l \div 2^(28 - n), (l % 2^(28 - n)) * 2^n, e - n)

\* The number of sign s and magnitude (hi * 2^28 + lo) * 2^(e - 55), for
\* hi in 0 .. 2^29 - 1 and lo in 0 .. 2^28 - 1: the significand is shifted
\* until its leading bit is bit 27 of hi, then rounded
Normalize(s, hi, lo, e) ==
    IF hi >= 2 * LimbHi
    THEN Round(s, hi \div 2, Sticky((lo \div 2) + (hi % 2) * LimbHi, lo % 2 = 1), e + 1)
    ELSE IF hi > 0 THEN ShiftLeft(s, hi, lo, e, 27 - Log2(hi))
    ELSE IF lo > 0 THEN ShiftLeft(s, lo, 0, e - 28, 27 - Log2(lo))
    ELSE Zero

\* The number of sign s and magnitude m, whose leading bit is bit k
NumBits(s, m, k) ==
    IF k <= 27 THEN <<s, m * 2^(27 - k), 0, k>>
    ELSE <<s, m \div 2^(k - 27), (m % 2^(k - 27)) * 2^(52 - k), k>>

\* An integer of the code (a count, a pixel size) as a number
Num(n) ==
    IF n = 0 THEN Zero
    ELSE NumBits(IF n > 0 THEN 1 ELSE -1, IntAbs(n), Log2(IntAbs(n)))

\* ToNumber: undefined converts to NaN in arithmetic
ToNumber(x) == IF x = undefined THEN NaN ELSE x

\* Number.isFinite
IsFinite(x) == x[4] < 1024 /\ x # undefined

IsNaN(x) == x = NaN

Neg(x) == <<-x[1], x[2], x[3], x[4]>>

\* |a| < |b| for numbers that are not NaN: 0, whose sign is 0, is below every
\* other magnitude
MagLt(a, b) ==
    /\ b[1] # 0
    /\ \/ a[1] = 0
       \/ a[4] < b[4]
       \/ a[4] = b[4] /\ (a[2] < b[2] \/ (a[2] = b[2] /\ a[3] < b[3]))

\* The extended significand hi * 2^28 + lo shifted right by d bits, as
\* <<hi, lo>>; the bits shifted out are kept in the sticky bit
ShiftRight(hi, lo, d) ==
    IF d = 0 THEN <<hi, lo>>
    ELSE IF d < 28
    THEN <<hi \div 2^d,
           Sticky((lo \div 2^d) + (hi % 2^d) * 2^(28 - d), lo % 2^d # 0)>>
    ELSE IF d < 57
    THEN <<0, Sticky(hi \div 2^(d - 28), hi % 2^(d - 28) # 0 \/ lo # 0)>>
    ELSE <<0, 1>>

\* |x| + sg * b with the sign of x, for the extended significand b = <<hi,
\* lo>> of a smaller magnitude aligned to the exponent of x, sg in {1, -1}
AddLimbs(x, b, sg) ==
    Normalize(x[1],
              x[2] + sg * b[1] + (x[3] * 8 + sg * b[2]) \div LimbExt,
              (x[3] * 8 + sg * b[2]) % LimbExt,
              x[4])

\* x + y for finite x and y other than 0, |x| >= |y|
AddOrdered(x, y) ==
    IF x[1] # y[1] /\ ~MagLt(y, x) THEN Zero
    ELSE AddLimbs(x, ShiftRight(y[2], y[3] * 8, x[4] - y[4]), x[1] * y[1])

\* x + y for numbers
AddNum(x, y) ==
    IF IsFinite(x) /\ IsFinite(y)
    THEN IF y = Zero THEN x
         ELSE IF x = Zero THEN y
         ELSE AddOrdered(IF MagLt(x, y) THEN y ELSE x, IF MagLt(x, y) THEN x ELSE y)
    ELSE IF IsNaN(x) \/ IsNaN(y) THEN NaN
    ELSE IF IsFinite(x) THEN y
    ELSE IF IsFinite(y) THEN x
    ELSE IF x = y THEN x ELSE NaN

\* a + b
Add(a, b) == AddNum(ToNumber(a), ToNumber(b))

\* a - b
Sub(a, b) == Add(a, Neg(ToNumber(b)))

\* The last step of x / k: q2 is the quotient of the low limb, n3 the
\* remainder that is left of it, scaled by 2^t
DivEnd(x, k, t, q2, n3) ==
    Normalize(x[1],
              (x[2] \div k) * 2^(t - 3) + q2 \div 2^(28 - t),
              Sticky((q2 % 2^(28 - t)) * 2^t + n3 \div k, n3 % k # 0),
              x[4] - t + 3)

\* x / k from the low limb on: n2 is the remainder of the high limb with
\* the low limb appended
DivLow(x, k, t, n2) == DivEnd(x, k, t, n2 \div k, (n2 % k) * 2^t)

\* x / k for a number x
DivNum(x, k) ==
    IF ~IsFinite(x) THEN x
    ELSE IF k = 0 THEN <<x[1], 0, 0, 1024>>
    ELSE IF x = Zero THEN Zero
    ELSE DivLow(x, k, Log2(k) + 4, (x[2] % k) * LimbLo + x[3])

\* a / k for an integer k in 0 .. 31 (a list length): the significand is
\* divided limb by limb to 55 or 56 bits, the remainder is the sticky bit
Div(a, k) == DivNum(ToNumber(a), k)

\* a < b: FALSE when either is NaN
Lt(a, b) ==
    IF IsNaN(ToNumber(a)) \/ IsNaN(ToNumber(b)) THEN FALSE
    ELSE IF a[1] # b[1] THEN a[1] < b[1]
    ELSE IF a[1] = 1 THEN MagLt(a, b)
    ELSE IF a[1] = -1 THEN MagLt(b, a)
    ELSE FALSE

Gt(a, b) == Lt(b, a)

\* a == b on numbers: NaN equals nothing
NumEq(a, b) == ~IsNaN(ToNumber(a)) /\ ~IsNaN(ToNumber(b)) /\ a = b

\* Math.abs
Abs(a) == IF IsNaN(ToNumber(a)) THEN NaN ELSE <<IntAbs(a[1]), a[2], a[3], a[4]>>

\* !x on a stored height: undefined, 0 and NaN are falsy
Falsy(x) == x[1] = 0

-----------------------------------------------------------------------------
(* Layout: constants and size queries.                                     *)

handleHeight == 1

MaxSectionHeight == 100000

HeaderHeight == 36

ItemPadding == 4

ItemHeight == 34

\* Faulty clamp: the lower bound is not applied
clamp_NoLowerBound(height, min, max) ==
    IF Gt(height, max) THEN max ELSE height

clamp(height, min, max) ==
    IF Gt(height, max) THEN max
    ELSE IF Lt(height, min) THEN min
    ELSE height

_sectionHeight(count) ==
    Num(HeaderHeight + (IF count = 0 THEN 0 ELSE ItemPadding + count * ItemHeight))

\* Faulty _getMaxHeight: a collapsed section is not capped at its header
_getMaxHeight_Uncapped(S, C, i) == Num(MaxSectionHeight)

\* _getMaxHeight(i), i 0-based, on the section list S with collapsed state C
_getMaxHeight(S, C, i) ==
    IF C[S[i + 1].id] THEN _sectionHeight(0) ELSE Num(MaxSectionHeight)

IntMin(a, b) == IF a < b THEN a ELSE b

\* Faulty _getMinHeight: no section is floored at its single-item height
_getMinHeight_NoItems(S, C, i) == _sectionHeight(0)

_getMinHeight(S, C, i) ==
    LET maxItems == IF C[S[i + 1].id] THEN 0 ELSE 1
    IN _sectionHeight(IntMin(S[i + 1].count, maxItems))

_getSectionIndex(S, id) ==
    IF \E i \in 1..Len(S) : S[i].id = id
    THEN (CHOOSE i \in 1..Len(S) : S[i].id = id /\ \A j \in 1..(i - 1) : S[j].id # id) - 1
    ELSE -1

\* The position of id in the list S (0 when it is not listed)
PositionIn(S, id) == _getSectionIndex(S, id) + 1

RECURSIVE NonCollapsedCount(_, _, _)
NonCollapsedCount(S, C, k) ==
    IF k > Len(S) THEN 0
    ELSE (IF C[S[k].id] THEN 0 ELSE 1) + NonCollapsedCount(S, C, k + 1)

\* Faulty _getAvailableHeight: the handles between the sections are not
\* subtracted
_getAvailableHeight_NoHandles(S, C, avail) ==
    avail

_getAvailableHeight(S, C, avail) ==
    Sub(avail, Num((NonCollapsedCount(S, C, 1) - 1) * handleHeight))

\* this._sections.map((section) => this._sectionHeights[section.id])
StoredHeights(S, SH) == [i \in 1..Len(S) |-> SH[S[i].id]]

\* reduce((sum, h) => sum + h, sum) over the heights of H from position k on
RECURSIVE SumFrom(_, _, _)
SumFrom(sum, H, k) == IF k > Len(H) THEN sum ELSE SumFrom(Add(sum, H[k]), H, k + 1)

SumHeights(H, k) == SumFrom(Num(0), H, k)

-----------------------------------------------------------------------------
(* Layout: the overflow distribution.                                      *)

\* The loop of _applyOverflow runs over st, the record of its variables:
\* heights (this._heights), overflow, per (overflowPerSection), unclamped
\* (unclampedSections) and sections (the list the call was given).
\* OverflowLoop is the loop from position k of `secs` on.
RECURSIVE OverflowLoop(_, _, _, _, _, _)

\* The rest of the loop body for secs[k], given newHeight and the overflow
\* left after it: the unclamped test, the assignments, the break
OverflowNext(k, secs, blend, st, newHeight, overflow, S, C) ==
    LET i == secs[k]
        next == [sections |-> st.sections,
                 heights |-> [st.heights EXCEPT ![i] = newHeight],
                 overflow |-> overflow,
                 per |-> IF blend THEN st.per ELSE overflow,
                 unclamped |-> IF NumEq(newHeight, Sub(st.heights[i], st.per))
                               THEN Append(st.unclamped, i)
                               ELSE st.unclamped]
    IN IF ~blend /\ Lt(Abs(overflow), Num(1))
       THEN next
       ELSE OverflowLoop(k + 1, secs, blend, next, S, C)

\* overflow -= this._heights[i] - newHeight
OverflowClamped(k, secs, blend, st, newHeight, S, C) ==
    OverflowNext(k, secs, blend, st, newHeight,
                 Sub(st.overflow, Sub(st.heights[secs[k]], newHeight)), S, C)

OverflowLoop(k, secs, blend, st, S, C) ==
    IF k > Len(secs) THEN st
    ELSE OverflowClamped(k, secs, blend, st,
                         clamp(Sub(st.heights[secs[k]], st.per),
                               _getMinHeight(S, C, secs[k] - 1),
                               _getMaxHeight(S, C, secs[k] - 1)),
                         S, C)

\* _applyOverflow(overflow, sections, blend) on the in-progress heights H:
\* the overflow left and the heights after it.
RECURSIVE _applyOverflow(_, _, _, _, _, _)

\* What `internal` keeps of one _applyOverflow call: the list it was given,
\* the overflow left after its loop and the sections its loop left unclamped
OverflowCall(st) ==
    [sections |-> st.sections, left |-> st.overflow, unclamped |-> st.unclamped]

\* After the loop ended with st: recurse on the unclamped sections or return.
\* nested: this call followed by the calls nested in it.
ApplyOverflowEnd(st, blend, S, C) ==
    IF Gt(Abs(st.overflow), Num(1)) /\ Len(st.unclamped) > 0
    THEN [_applyOverflow(st.overflow, st.unclamped, blend, st.heights, S, C)
             EXCEPT !.nested = <<OverflowCall(st)>> \o @]
    ELSE [overflow |-> st.overflow, heights |-> st.heights,
          nested |-> <<OverflowCall(st)>>]

_applyOverflow(overflow, secs, blend, H, S, C) ==
    ApplyOverflowEnd(OverflowLoop(1, secs, blend,
                         [sections |-> secs,
                          heights |-> H,
                          overflow |-> overflow,
                          per |-> IF blend THEN Div(overflow, Len(secs)) ELSE overflow,
                          unclamped |-> <<>>],
                         S, C),
                     blend, S, C)

\* Faulty _rebalanceAbove: the loop runs from the top of the list down to
\* the anchor
SectionsAbove_TopDown(anchor) == [k \in 1..anchor |-> k]

\* for (let i = anchor - 1; i >= 0; i--) sections.push(i), as positions
SectionsAbove(anchor) == [k \in 1..anchor |-> anchor + 1 - k]

\* for (let i = anchor + 1; i < this._sections.length; i++) sections.push(i)
SectionsBelow(S, anchor) == [k \in 1..(Len(S) - anchor - 1) |-> anchor + 1 + k]

_rebalanceAbove(anchor, overflowAbove, H, S, C) ==
    IF Gt(Abs(overflowAbove), Num(1))
    THEN _applyOverflow(overflowAbove, SectionsAbove(anchor), FALSE, H, S, C)
    ELSE [overflow |-> overflowAbove, heights |-> H, nested |-> <<>>]

\* Faulty _rebalanceBelow: the loop starts at the anchor itself
_rebalanceBelow_FromAnchor(anchor, overflowBelow, H, S, C) ==
    IF Gt(Abs(overflowBelow), Num(1))
    THEN _applyOverflow(overflowBelow, [k \in 1..(Len(S) - anchor) |-> anchor + k],
                        FALSE, H, S, C)
    ELSE [overflow |-> overflowBelow, heights |-> H, nested |-> <<>>]

_rebalanceBelow(anchor, overflowBelow, H, S, C) ==
    IF Gt(Abs(overflowBelow), Num(1))
    THEN _applyOverflow(overflowBelow, SectionsBelow(S, anchor), FALSE, H, S, C)
    ELSE [overflow |-> overflowBelow, heights |-> H, nested |-> <<>>]

\* Faulty _applyHeights: the loop stops one section early
_applyHeights_SkipsLast(S, H) == [i \in 1..(Len(S) - 1) |-> <<S[i].id, H[i]>>]

\* _applyHeights: the calls applyHeight(section.id, this._heights[i]), in order
_applyHeights(S, H) == [i \in 1..Len(S) |-> <<S[i].id, H[i]>>]

\* _commitHeights: this._sectionHeights[section.id] = this._heights[i], in order
RECURSIVE CommitFrom(_, _, _, _)
CommitFrom(k, S, SH, H) ==
    IF k > Len(S) THEN SH
    ELSE CommitFrom(k + 1, S, [SH EXCEPT ![S[k].id] = H[k]], H)

\* Faulty _commitHeights: the first section is not stored
_commitHeights_SkipsFirst(S, SH, H) == CommitFrom(2, S, SH, H)

_commitHeights(S, SH, H) == CommitFrom(1, S, SH, H)

\* Faulty _relayout: it goes on from the in-progress heights of the drag
RelayoutStart_Incremental(S, SH, H0) ==
    IF Len(H0) = Len(S) THEN H0 ELSE StoredHeights(S, SH)

\* First statement of _relayout: the in-progress heights restart from the
\* committed ones, whatever H0 (the previous this._heights) was.
RelayoutStart(S, SH, H0) == StoredHeights(S, SH)

\* _relayout(anchor, offset, clamped) with in-progress heights H0 on entry.
\* threw: this._sections[anchor] is undefined, so _getMaxHeight throws a
\* TypeError.  calls: the applyHeight calls made.  ret: the value returned.
\* runs: the number of _relayout invocations, this one included.  overflows:
\* the _applyOverflow calls _rebalanceAbove and _rebalanceBelow made, in order,
\* each with the calls nested in it.
RECURSIVE _relayout(_, _, _, _, _, _, _)

\* The _applyOverflow calls of one run of _relayout
RebalanceCalls(above, below) ==
    (IF above.nested = <<>> THEN <<>> ELSE <<above.nested>>)
        \o (IF below.nested = <<>> THEN <<>> ELSE <<below.nested>>)

\* Faulty _relayout: the overflow left below the anchor is not looked at
RelayoutEnd_IgnoresBelow(anchor, offset, clamped, above, below, S, C, SH) ==
    IF ~clamped /\ Gt(Abs(above.overflow), Num(1))
    THEN [_relayout(anchor, Add(offset, above.overflow), TRUE, below.heights, S, C, SH)
             EXCEPT !.ret = Add(offset, above.overflow),
                    !.runs = @ + 1,
                    !.overflows = RebalanceCalls(above, below) \o @]
    ELSE [threw |-> FALSE, heights |-> below.heights,
          calls |-> _applyHeights(S, below.heights), ret |-> undefined,
          runs |-> 1, overflows |-> RebalanceCalls(above, below)]

\* Faulty _relayout: it returns the overflow that was left, not the offset of
\* the re-run
RelayoutEnd_ReturnsOverflow(anchor, offset, clamped, above, below, S, C, SH) ==
    IF ~clamped /\ Gt(Abs(above.overflow), Num(1))
    THEN [_relayout(anchor, Add(offset, above.overflow), TRUE, below.heights, S, C, SH)
             EXCEPT !.ret = above.overflow,
                    !.runs = @ + 1,
                    !.overflows = RebalanceCalls(above, below) \o @]
    ELSE IF ~clamped /\ Gt(Abs(below.overflow), Num(1))
    THEN [_relayout(anchor, Sub(offset, below.overflow), TRUE, below.heights, S, C, SH)
             EXCEPT !.ret = below.overflow,
                    !.runs = @ + 1,
                    !.overflows = RebalanceCalls(above, below) \o @]
    ELSE [threw |-> FALSE, heights |-> below.heights,
          calls |-> _applyHeights(S, below.heights), ret |-> undefined,
          runs |-> 1, overflows |-> RebalanceCalls(above, below)]

\* Faulty _relayout: the re-run is not told that it is the clamped one
RelayoutEnd_RerunUnclamped(anchor, offset, clamped, above, below, S, C, SH) ==
    IF ~clamped /\ Gt(Abs(above.overflow), Num(1))
    THEN [_relayout(anchor, Add(offset, above.overflow), clamped, below.heights, S, C, SH)
             EXCEPT !.ret = Add(offset, above.overflow),
                    !.runs = @ + 1,
                    !.overflows = RebalanceCalls(above, below) \o @]
    ELSE IF ~clamped /\ Gt(Abs(below.overflow), Num(1))
    THEN [_relayout(anchor, Sub(offset, below.overflow), clamped, below.heights, S, C, SH)
             EXCEPT !.ret = Sub(offset, below.overflow),
                    !.runs = @ + 1,
                    !.overflows = RebalanceCalls(above, below) \o @]
    ELSE [threw |-> FALSE, heights |-> below.heights,
          calls |-> _applyHeights(S, below.heights), ret |-> undefined,
          runs |-> 1, overflows |-> RebalanceCalls(above, below)]

\* if (!clamped) ... to the end, given the results of _rebalanceAbove and of
\* _rebalanceBelow
RelayoutEnd(anchor, offset, clamped, above, below, S, C, SH) ==
    IF ~clamped /\ Gt(Abs(above.overflow), Num(1))
    THEN [_relayout(anchor, Add(offset, above.overflow), TRUE, below.heights, S, C, SH)
             EXCEPT !.ret = Add(offset, above.overflow),
                    !.runs = @ + 1,
                    !.overflows = RebalanceCalls(above, below) \o @]
    ELSE IF ~clamped /\ Gt(Abs(below.overflow), Num(1))
    THEN [_relayout(anchor, Sub(offset, below.overflow), TRUE, below.heights, S, C, SH)
             EXCEPT !.ret = Sub(offset, below.overflow),
                    !.runs = @ + 1,
                    !.overflows = RebalanceCalls(above, below) \o @]
    ELSE [threw |-> FALSE, heights |-> below.heights,
          calls |-> _applyHeights(S, below.heights), ret |-> undefined,
          runs |-> 1, overflows |-> RebalanceCalls(above, below)]

\* overflowBelow = this._rebalanceBelow(anchor, overflowBelow), given the result
\* of _rebalanceAbove; overflowBelow is offset in all three branches
RelayoutBelow(anchor, offset, clamped, above, S, C, SH) ==
    RelayoutEnd(anchor, offset, clamped, above,
                _rebalanceBelow(anchor, offset, above.heights, S, C), S, C, SH)

\* The overflows of the anchor's move, its clamped height, _rebalanceAbove
RelayoutAnchor(anchor, offset, clamped, H1, S, C, SH) ==
    LET maxHeight == _getMaxHeight(S, C, anchor)
        minHeight == _getMinHeight(S, C, anchor)
        moved == Add(H1[anchor + 1], offset)
        overflowAbove == IF Gt(moved, maxHeight)
                         THEN Sub(Sub(maxHeight, H1[anchor + 1]), offset)
                         ELSE IF Lt(moved, minHeight)
                         THEN Sub(Sub(minHeight, H1[anchor + 1]), offset)
                         ELSE Num(0)
    IN RelayoutBelow(anchor, offset, clamped,
                     _rebalanceAbove(anchor, overflowAbove,
                                     [H1 EXCEPT ![anchor + 1] =
                                         clamp(moved, minHeight, maxHeight)],
                                     S, C),
                     S, C, SH)

_relayout(anchor, offset, clamped, H0, S, C, SH) ==
    IF anchor < 0 \/ anchor >= Len(S)
    THEN [threw |-> TRUE, heights |-> RelayoutStart(S, SH, H0), calls |-> <<>>,
          ret |-> undefined, runs |-> 1, overflows |-> <<>>]
    ELSE RelayoutAnchor(anchor, offset, clamped, RelayoutStart(S, SH, H0), S, C, SH)

\* this._applyHeights(); this._commitHeights(), where r is the result of the
\* _applyOverflow call
ApplyNewSizeEnd(S, SH, r) ==
    [heights |-> r.heights,
     calls |-> _applyHeights(S, r.heights),
     sectionHeights |-> _commitHeights(S, SH, r.heights),
     overflows |-> <<r.nested>>]

\* Faulty _applyNewSize: _applyOverflow is called without blend
_applyNewSize_NoBlend(S, C, SH, avail) ==
    LET newHeight == _getAvailableHeight(S, C, avail)
        currHeight == SumHeights(StoredHeights(S, SH), 1)
        offset == Sub(newHeight, currHeight)
    IN ApplyNewSizeEnd(S, SH,
           _applyOverflow(Neg(offset), [i \in 1..Len(S) |-> i], FALSE,
                          StoredHeights(S, SH), S, C))

\* _applyNewSize on the section list S: the in-progress heights, the committed
\* heights, the applyHeight calls after it and its _applyOverflow call.
_applyNewSize(S, C, SH, avail) ==
    LET newHeight == _getAvailableHeight(S, C, avail)
        currHeight == SumHeights(StoredHeights(S, SH), 1)
        offset == Sub(newHeight, currHeight)
    IN ApplyNewSizeEnd(S, SH,
           _applyOverflow(Neg(offset), [i \in 1..Len(S) |-> i], TRUE,
                          StoredHeights(S, SH), S, C))

\* The forEach of update that seeds the sections without a stored height
RECURSIVE SeedHeights(_, _, _, _, _)
SeedHeights(k, S, C, SH, totalHeight) ==
    IF k > Len(S) THEN SH
    ELSE SeedHeights(k + 1, S, C,
             IF Falsy(SH[S[k].id])
             THEN [SH EXCEPT ![S[k].id] = clamp(Div(totalHeight, Len(S)),
                                               _getMinHeight(S, C, k - 1),
                                               _getMaxHeight(S, C, k - 1))]
             ELSE SH,
             totalHeight)


-----------------------------------------------------------------------------
(* The state after construction and the public operations.                 *)

\* The value of `internal` after an operation
Internal(relayouts, overflows, ret) ==
    [relayouts |-> relayouts, overflows |-> overflows, ret |-> ret]

\* A slot that holds no Handle
NoHandle == [anchor |-> -2, initialHeight |-> undefined]

Called(op, id, handle, arg, secs, threw) ==
    [op |-> op, id |-> id, handle |-> handle, arg |-> arg, secs |-> secs, threw |-> threw]

\* What prevOp keeps of an operation: a Handle's setHeight or finish and its slot
HandleCall(called) ==
    IF called.op \in {"setHeight", "finish"} THEN <<called.op, called.handle>> ELSE <<"", 0>>

\* Faulty comparison: the section objects are compared by identity, and the
\* host passes fresh objects
SectionsChanged_ByIdentity(secs, S) == Len(secs) # Len(S) \/ Len(secs) > 0

\* sections.length !== this._sections.length || sections.some(...)
SectionsChanged(secs, S) ==
    \/ Len(secs) # Len(S)
    \/ \E i \in 1..Len(secs) : secs[i].id # S[i].id \/ secs[i].count # S[i].count

\* Faulty update: availableHeight is taken without the Number.isFinite test
UpdateResult_NoFiniteCheck(secs, avail, S, C, avail0, SH, H) ==
    LET heightChanged == avail # avail0
        newAvail == IF heightChanged THEN avail ELSE avail0
    IN IF ~heightChanged /\ ~SectionsChanged(secs, S)
       THEN [sections |-> S, availableHeight |-> avail0, sectionHeights |-> SH,
             heights |-> H, calls |-> <<>>, overflows |-> <<>>]
       ELSE [sections |-> secs, availableHeight |-> newAvail]
            @@ _applyNewSize(secs, C,
                             SeedHeights(1, secs, C, SH,
                                         _getAvailableHeight(secs, C, newAvail)),
                             newAvail)

\* update(sections, availableHeight) on a Layout with the fields S, C, avail0,
\* SH, H: the fields after it and the applyHeight calls it made.
UpdateResult(secs, avail, S, C, avail0, SH, H) ==
    LET heightChanged == IsFinite(avail) /\ avail # avail0
        newAvail == IF heightChanged THEN avail ELSE avail0
    IN IF ~heightChanged /\ ~SectionsChanged(secs, S)
       THEN [sections |-> S, availableHeight |-> avail0, sectionHeights |-> SH,
             heights |-> H, calls |-> <<>>, overflows |-> <<>>]
       ELSE [sections |-> secs, availableHeight |-> newAvail]
            @@ _applyNewSize(secs, C,
                             SeedHeights(1, secs, C, SH,
                                         _getAvailableHeight(secs, C, newAvail)),
                             newAvail)

\* Faulty expandSection: the Handle's finish() is left out
ExpandEnd_NoFinish(S, r, d) ==
    [heights |-> d.heights,
     sectionHeights |-> r.sectionHeights,
     calls |-> r.calls \o d.calls,
     overflows |-> r.overflows \o d.overflows,
     runs |-> d.runs,
     ret |-> d.ret,
     threw |-> d.threw]

\* this.openHandle(id).setHeight(height).finish() of expandSection, where r is
\* the result of its _applyNewSize and d that of the Handle's _relayout
ExpandEnd(S, r, d) ==
    [heights |-> d.heights,
     sectionHeights |-> IF d.threw THEN r.sectionHeights
                        ELSE _commitHeights(S, r.sectionHeights, d.heights),
     calls |-> r.calls \o d.calls,
     overflows |-> r.overflows \o d.overflows,
     runs |-> d.runs,
     ret |-> d.ret,
     threw |-> d.threw]

ExpandDrag(id, height, S, C, r) ==
    ExpandEnd(S, r, _relayout(_getSectionIndex(S, id), Sub(height, r.sectionHeights[id]),
                              FALSE, r.heights, S, C, r.sectionHeights))

\* expandSection(id, height) on a Layout with the fields S, C (id already
\* expanded in it), SH, avail
ExpandResult(id, height, S, C, SH, avail) ==
    ExpandDrag(id, height, S, C, _applyNewSize(S, C, SH, avail))

update(secs, avail) ==
    /\ budget > 0
    /\ LET r == UpdateResult(secs, avail, sections, collapsedState, availableHeight,
                             sectionHeights, heights)
       IN /\ sections' = r.sections
          /\ availableHeight' = r.availableHeight
          /\ sectionHeights' = r.sectionHeights
          /\ heights' = r.heights
          /\ applied' = r.calls
          /\ internal' = Internal(0, r.overflows, undefined)
    /\ lastOp' = Called("update", "", 0, avail, secs, FALSE)
    /\ prevOp' = HandleCall(lastOp)
    /\ budget' = budget - 1
    /\ UNCHANGED <<collapsedState, handles>>
    /\ UNCHANGED exportVars

setAvailableHeight(newSize) ==
    /\ budget > 0
    /\ LET r == _applyNewSize(sections, collapsedState, sectionHeights, newSize)
       IN /\ availableHeight' = newSize
          /\ heights' = r.heights
          /\ sectionHeights' = r.sectionHeights
          /\ applied' = r.calls
          /\ internal' = Internal(0, r.overflows, undefined)
    /\ lastOp' = Called("setAvailableHeight", "", 0, newSize, <<>>, FALSE)
    /\ prevOp' = HandleCall(lastOp)
    /\ budget' = budget - 1
    /\ UNCHANGED <<sections, collapsedState, handles>>
    /\ UNCHANGED exportVars

\* expandSection(id, height); for an id that is not listed the Handle's
\* setHeight throws after _applyNewSize has committed.
expandSection(id, height) ==
    /\ budget > 0
    /\ LET C == [collapsedState EXCEPT ![id] = FALSE]
           e == ExpandResult(id, height, sections, C, sectionHeights, availableHeight)
       IN /\ collapsedState' = C
          /\ heights' = e.heights
          /\ sectionHeights' = e.sectionHeights
          /\ applied' = e.calls
          /\ internal' = Internal(e.runs, e.overflows, e.ret)
          /\ lastOp' = Called("expandSection", id, 0, height, <<>>, e.threw)
          /\ prevOp' = HandleCall(lastOp)
    /\ budget' = budget - 1
    /\ UNCHANGED <<sections, availableHeight, handles>>
    /\ UNCHANGED exportVars

collapseSection(id) ==
    /\ budget > 0
    /\ LET C == [collapsedState EXCEPT ![id] = TRUE]
           r == _applyNewSize(sections, C, sectionHeights, availableHeight)
       IN /\ collapsedState' = C
          /\ heights' = r.heights
          /\ sectionHeights' = r.sectionHeights
          /\ applied' = r.calls
          /\ internal' = Internal(0, r.overflows, undefined)
    /\ lastOp' = Called("collapseSection", id, 0, undefined, <<>>, FALSE)
    /\ prevOp' = HandleCall(lastOp)
    /\ budget' = budget - 1
    /\ UNCHANGED <<sections, availableHeight, handles>>
    /\ UNCHANGED exportVars

\* openHandle(id), the Handle kept in slot k (also Distributor's constructor).
\* The caller's slots are taken in order.
openHandle(k, id) ==
    /\ budget > 0
    /\ \A j \in 1..(k - 1) : handles[j] # NoHandle
    /\ handles' = [handles EXCEPT ![k] =
                      [anchor |-> _getSectionIndex(sections, id),
                       initialHeight |-> sectionHeights[id]]]
    /\ applied' = <<>>
    /\ internal' = Internal(0, <<>>, undefined)
    /\ lastOp' = Called("openHandle", id, k, undefined, <<>>, FALSE)
    /\ prevOp' = HandleCall(lastOp)
    /\ budget' = budget - 1
    /\ UNCHANGED <<sections, collapsedState, availableHeight, sectionHeights, heights>>
    /\ UNCHANGED exportVars

\* Faulty Handle.setHeight: the relayout also commits
Handle_setHeight_Commits(k, height) ==
    /\ budget > 0
    /\ handles[k] # NoHandle
    /\ LET d == _relayout(handles[k].anchor, Sub(height, handles[k].initialHeight), FALSE,
                          heights, sections, collapsedState, sectionHeights)
       IN /\ heights' = d.heights
          /\ sectionHeights' = _commitHeights(sections, sectionHeights, d.heights)
          /\ applied' = d.calls
          /\ internal' = Internal(d.runs, d.overflows, d.ret)
          /\ lastOp' = Called("setHeight", "", k, height, <<>>, d.threw)
          /\ prevOp' = HandleCall(lastOp)
    /\ budget' = budget - 1
    /\ UNCHANGED <<sections, collapsedState, availableHeight, handles>>
    /\ UNCHANGED exportVars

\* Handle.setHeight(height) on the Handle of slot k (also Distributor.resize)
Handle_setHeight(k, height) ==
    /\ budget > 0
    /\ handles[k] # NoHandle
    /\ LET d == _relayout(handles[k].anchor, Sub(height, handles[k].initialHeight), FALSE,
                          heights, sections, collapsedState, sectionHeights)
       IN /\ heights' = d.heights
          /\ applied' = d.calls
          /\ internal' = Internal(d.runs, d.overflows, d.ret)
          /\ lastOp' = Called("setHeight", "", k, height, <<>>, d.threw)
          /\ prevOp' = HandleCall(lastOp)
    /\ budget' = budget - 1
    /\ UNCHANGED <<sections, collapsedState, availableHeight, sectionHeights, handles>>
    /\ UNCHANGED exportVars

\* Faulty Handle.finish: it commits only a drag of its own Handle
Handle_finish_OwnDrag(k) ==
    /\ budget > 0
    /\ handles[k] # NoHandle
    /\ sectionHeights' = IF lastOp.op = "setHeight" /\ lastOp.handle # k
                          THEN sectionHeights
                          ELSE _commitHeights(sections, sectionHeights, heights)
    /\ applied' = <<>>
    /\ internal' = Internal(0, <<>>, undefined)
    /\ lastOp' = Called("finish", "", k, undefined, <<>>, FALSE)
    /\ prevOp' = HandleCall(lastOp)
    /\ budget' = budget - 1
    /\ UNCHANGED <<sections, collapsedState, availableHeight, heights, handles>>
    /\ UNCHANGED exportVars

\* Handle.finish() on the Handle of slot k (also Distributor.finish)
Handle_finish(k) ==
    /\ budget > 0
    /\ handles[k] # NoHandle
    /\ sectionHeights' = _commitHeights(sections, sectionHeights, heights)
    /\ applied' = <<>>
    /\ internal' = Internal(0, <<>>, undefined)
    /\ lastOp' = Called("finish", "", k, undefined, <<>>, FALSE)
    /\ prevOp' = HandleCall(lastOp)
    /\ budget' = budget - 1
    /\ UNCHANGED <<sections, collapsedState, availableHeight, heights, handles>>
    /\ UNCHANGED exportVars

-----------------------------------------------------------------------------
(* The chat export: the options an exporter is constructed with, by the    *)
(* export test and by ExportDialog.                                        *)

\* Object.keys(ExportFormat), Object.keys(ExportType)
ExportFormats == {"Html", "Json", "PlainText"}

ExportTypes == {"Timeline", "Beginning", "LastNMessages"}

\* The enums of utils/exportUtils, from member name to value.  The dialog
\* gives the select the state as its value and the member names as its
\* options, and looks the state up again in startExport: the values are the
\* member names
ExportFormat == [key \in ExportFormats |-> key]

ExportType == [key \in ExportTypes |-> key]

\* enum[key]: undefined for a key that is no member
Member(enum, key) == IF key \in DOMAIN enum THEN enum[key] ELSE "undefined"

\* maxSize is counted in KiB here: every size of the dialog and of the test is
\* a multiple of 1024 bytes, and 4096 * 1024 * 1024 bytes is no 32-bit integer
KiBPerMiB == 1024

\* The ranges of the dialog's validators: MB and messages
MinSize == 1

MaxSize == 2000

MinNumberOfMessages == 1

MaxNumberOfMessages == 100000000

DefaultNumberOfMessages == 100

DefaultSizeLimit == 8

\* IExportOptions
ExportOptions(numberOfMessages, attachmentsIncluded, maxSize) ==
    [numberOfMessages |-> numberOfMessages,
     attachmentsIncluded |-> attachmentsIncluded,
     maxSize |-> maxSize]

\* The test's mockExportOptions and invalidExportOptions
mockExportOptions == ExportOptions(5, FALSE, 100 * KiBPerMiB)

invalidExportOptions ==
    <<ExportOptions(10^9, FALSE, 1024 * KiBPerMiB),
      ExportOptions(-1, FALSE, 4096 * KiBPerMiB),
      ExportOptions(0, FALSE, 0)>>

\* onValidateSize(value).valid, for a value that is a number
onValidateSize(value) == ~(MinSize > value \/ value > MaxSize)

\* onValidateNumberOfMessages(value).valid, for a value that is a number
onValidateNumberOfMessages(value) ==
    ~(MinNumberOfMessages > value \/ value > MaxNumberOfMessages)

\* No exporter was constructed yet (the dialog's Exporter state is null)
NoExporter ==
    [constructed |-> FALSE, error |-> "", exportType |-> "",
     options |-> ExportOptions(0, FALSE, 0)]

\* The exporter that a constructor returned
Constructed(exportType, options) ==
    [constructed |-> TRUE, error |-> "", exportType |-> exportType, options |-> options]

\* The error that a constructor threw; "Invalid export options" is the one
\* error of the constructor that the test names
Thrown(exportType, options) ==
    [constructed |-> FALSE, error |-> "Invalid export options",
     exportType |-> exportType, options |-> options]

\* new HTMLExporter / JSONExporter / PlainTextExporter(room, exportType,
\* exportOptions, ...): what the constructor may do.  The exporter classes are
\* not among the sources.  Their test tells the outcome of its own calls
\* (type Beginning: each of invalidExportOptions throws, mockExportOptions
\* construct an exporter); on any other call the constructor may return an
\* exporter or throw
Exporter(exportType, options) ==
    IF exportType = ExportType.Beginning
          /\ \E i \in DOMAIN invalidExportOptions : options = invalidExportOptions[i]
    THEN {Thrown(exportType, options)}
    ELSE IF exportType = ExportType.Beginning /\ options = mockExportOptions
    THEN {Constructed(exportType, options)}
    ELSE {Constructed(exportType, options), Thrown(exportType, options)}

\* The initial values of the dialog's useState hooks; Exporter is "null" or
\* names the class of the exporter that setExporter was given
DialogDefaults ==
    [exportFormat |-> ExportFormat.Html, exportType |-> ExportType.Timeline,
     includeAttachments |-> FALSE,
     numberOfMessages |-> DefaultNumberOfMessages, sizeLimit |-> DefaultSizeLimit,
     isExporting |-> FALSE, displayCancel |-> FALSE, exportCancelled |-> FALSE,
     exportSuccessful |-> FALSE, Exporter |-> "null"]

\* No validate(), no export() and no cancelExport() was called.  validate
\* holds the calls of onExportClick that wait for a Field to validate, export
\* the promises of export(), each with the exportCancelled that its
\* continuation closes over, cancel the promises of cancelExport(), one for
\* each click on Stop
NoPromises == [validate |-> <<>>, export |-> <<>>, cancel |-> <<>>]

\* Faulty render: the successful export is looked at before the cancellation
ExportDialogView_SuccessFirst(d) ==
    IF d.exportSuccessful THEN "Export Successful"
    ELSE IF d.exportCancelled THEN "Export Cancelled"
    ELSE IF d.displayCancel THEN "Warning"
    ELSE IF d.isExporting THEN "Exporting your data"
    ELSE "Export Chat"

\* The title of the BaseDialog that the component returns for the state d
ExportDialogView(d) ==
    IF d.exportCancelled THEN "Export Cancelled"
    ELSE IF d.exportSuccessful THEN "Export Successful"
    ELSE IF d.displayCancel THEN "Warning"
    ELSE IF d.isExporting THEN "Exporting your data"
    ELSE "Export Chat"

\* The export settings are rendered, with their fields
SettingsView == ExportDialogView(dialog) \in {"Export Chat", "Exporting your data"}

\* messageCountRef.current is a Field: the message count field is rendered
MessageCountRendered == SettingsView /\ dialog.exportType = ExportType.LastNMessages

\* The Layout is not called by the dialog
layoutIdle == <<sections, collapsedState, availableHeight, sectionHeights, heights,
                handles, applied, lastOp, prevOp, internal>>

\* onChange of the format radio group: setExportFormat(ExportFormat[key])
setExportFormat(key) ==
    /\ budget > 0
    /\ SettingsView
    /\ dialog' = [dialog EXCEPT !.exportFormat = Member(ExportFormat, key)]
    /\ budget' = budget - 1
    /\ UNCHANGED <<exporter, promises, layoutIdle>>

\* onChange of the message type select: setExportType(ExportType[value])
setExportType(key) ==
    /\ budget > 0
    /\ SettingsView
    /\ dialog' = [dialog EXCEPT !.exportType = Member(ExportType, key)]
    /\ budget' = budget - 1
    /\ UNCHANGED <<exporter, promises, layoutIdle>>

\* onChange of the message count field, rendered for LastNMessages only
setNumberOfMessages(n) ==
    /\ budget > 0
    /\ MessageCountRendered
    /\ dialog' = [dialog EXCEPT !.numberOfMessages = n]
    /\ budget' = budget - 1
    /\ UNCHANGED <<exporter, promises, layoutIdle>>

setSizeLimit(size) ==
    /\ budget > 0
    /\ SettingsView
    /\ dialog' = [dialog EXCEPT !.sizeLimit = size]
    /\ budget' = budget - 1
    /\ UNCHANGED <<exporter, promises, layoutIdle>>

\* onChange of the "Include Attachments" checkbox
setAttachments(checked) ==
    /\ budget > 0
    /\ SettingsView
    /\ dialog' = [dialog EXCEPT !.includeAttachments = checked]
    /\ budget' = budget - 1
    /\ UNCHANGED <<exporter, promises, layoutIdle>>

\* The values that onExportClick and startExport of one render close over
Closure(d) ==
    [exportFormat |-> d.exportFormat, exportType |-> d.exportType,
     includeAttachments |-> d.includeAttachments,
     numberOfMessages |-> d.numberOfMessages, sizeLimit |-> d.sizeLimit,
     exportCancelled |-> d.exportCancelled]

\* A call of onExportClick waiting at an await: for the validation of which
\* field, with the values its render closed over, and whether the value the
\* field held when validate was called is valid
Awaiting(field, closure, valid) == [field |-> field, closure |-> closure, valid |-> valid]

\* The sequence s without its k-th element
Without(s, k) == [i \in 1..(Len(s) - 1) |-> IF i < k THEN s[i] ELSE s[i + 1]]

\* startExport of a render: the constructor is called with the type and the
\* options of that render; what it may return or throw
startExport(closure) ==
    Exporter(Member(ExportType, closure.exportType),
             ExportOptions(closure.numberOfMessages, closure.includeAttachments,
                           closure.sizeLimit * KiBPerMiB))

\* The exportCancelled that the callback of useStateCallback, and with it
\* the continuation of export(), closes over: that of the render whose
\* setExporter was called (the click's), or that of the latest render
CallbackSees(captured, current) == {captured, current}

\* setExporting(true); await startExport() of the k-th waiting call: when the
\* constructor has not thrown, setExporter sets the Exporter state and the
\* callback of useStateCallback calls exporter.export(); a format that is no
\* case of the switch constructs nothing
setExporter(k) ==
    IF promises.validate[k].closure.exportFormat \notin ExportFormats
    THEN /\ dialog' = [dialog EXCEPT !.isExporting = TRUE]
         /\ promises' = [promises EXCEPT !.validate = Without(@, k)]
         /\ UNCHANGED exporter
    ELSE \E constructed \in startExport(promises.validate[k].closure) :
         /\ exporter' = constructed
         /\ IF constructed.constructed
            THEN /\ dialog' = [dialog EXCEPT
                                  !.isExporting = TRUE,
                                  !.Exporter = promises.validate[k].closure.exportFormat]
                 /\ \E saw \in CallbackSees(promises.validate[k].closure.exportCancelled,
                                            dialog.exportCancelled) :
                       promises' = [promises EXCEPT
                                       !.validate = Without(@, k),
                                       !.export = Append(@, [state |-> "pending",
                                                             sawCancelled |-> saw])]
            ELSE /\ dialog' = [dialog EXCEPT !.isExporting = TRUE]
                 /\ promises' = [promises EXCEPT !.validate = Without(@, k)]

\* onExportClick returns, or is rejected, without a change of state
onExportClickEnds(k) ==
    /\ promises' = [promises EXCEPT !.validate = Without(@, k)]
    /\ UNCHANGED <<dialog, exporter>>

\* A click on Export (the button is rendered with the settings while nothing
\* is exported): onExportClick up to its first await.  The size limit field
\* validates the value it holds when validate is called
onExportClick ==
    /\ budget > 0
    /\ SettingsView
    /\ ~dialog.isExporting
    /\ promises' = [promises EXCEPT
                       !.validate = Append(@, Awaiting("sizeLimit", Closure(dialog),
                                                       onValidateSize(dialog.sizeLimit)))]
    /\ budget' = budget - 1
    /\ UNCHANGED <<dialog, exporter, layoutIdle>>

\* onExportClick from the validation of the size limit on: the message count
\* field, if the click's type is LastNMessages, validates the value it holds
\* now; when it is not rendered any more, messageCountRef.current is null and
\* the call is rejected with a TypeError
onExportClick_isValidSize(k) ==
    /\ promises.validate[k].field = "sizeLimit"
    /\ IF ~promises.validate[k].valid THEN onExportClickEnds(k)
       ELSE IF promises.validate[k].closure.exportType = ExportType.LastNMessages
       THEN IF MessageCountRendered
            THEN /\ promises' =
                       [promises EXCEPT
                           !.validate[k] =
                               Awaiting("messageCount", @.closure,
                                        onValidateNumberOfMessages(dialog.numberOfMessages))]
                 /\ UNCHANGED <<dialog, exporter>>
            ELSE onExportClickEnds(k)
       ELSE setExporter(k)
    /\ UNCHANGED layoutVars

\* onExportClick from the validation of the message count on
onExportClick_isValidNumberOfMessages(k) ==
    /\ promises.validate[k].field = "messageCount"
    /\ IF ~promises.validate[k].valid THEN onExportClickEnds(k)
       ELSE setExporter(k)
    /\ UNCHANGED layoutVars

\* The k-th promise of exporter.export() resolves: if (!exportCancelled)
\* setExportSuccessful(true), with the exportCancelled of its closure
exportResolved(k) ==
    /\ promises.export[k].state = "pending"
    /\ promises' = [promises EXCEPT !.export[k].state = "settled"]
    /\ dialog' = IF promises.export[k].sawCancelled THEN dialog
                 ELSE [dialog EXCEPT !.exportSuccessful = TRUE]
    /\ UNCHANGED <<exporter, layoutVars>>

\* A click on Cancel, rendered with the settings while exporting
onCancel ==
    /\ budget > 0
    /\ SettingsView
    /\ dialog.isExporting
    /\ dialog' = [dialog EXCEPT !.displayCancel = TRUE]
    /\ budget' = budget - 1
    /\ UNCHANGED <<exporter, promises, layoutIdle>>

\* A click on Continue in the warning: setCancelWarning(false)
onContinue ==
    /\ budget > 0
    /\ ExportDialogView(dialog) = "Warning"
    /\ dialog' = [dialog EXCEPT !.displayCancel = FALSE]
    /\ budget' = budget - 1
    /\ UNCHANGED <<exporter, promises, layoutIdle>>

\* A click on Stop in the warning: Exporter?.cancelExport() is called and
\* awaited, once for each click; with no exporter nothing happens
confirmCanel ==
    /\ budget > 0
    /\ ExportDialogView(dialog) = "Warning"
    /\ promises' = IF dialog.Exporter = "null" THEN promises
                   ELSE [promises EXCEPT !.cancel = Append(@, "pending")]
    /\ budget' = budget - 1
    /\ UNCHANGED <<dialog, exporter, layoutIdle>>

\* The k-th promise of cancelExport() resolves: setExportCancelled(true),
\* setExporting(false), setExporter(null); the callback of useStateCallback
\* is given null and calls nothing
cancelResolved(k) ==
    /\ promises.cancel[k] = "pending"
    /\ promises' = [promises EXCEPT !.cancel[k] = "settled"]
    /\ dialog' = [dialog EXCEPT !.exportCancelled = TRUE,
                                !.isExporting = FALSE,
                                !.Exporter = "null"]
    /\ UNCHANGED <<exporter, layoutVars>>

\* The export test: new PlainTextExporter(mockRoom, ExportType.Beginning,
\* exportOption, null)
newPlainTextExporter(options) ==
    /\ budget > 0
    /\ exporter' \in Exporter(ExportType.Beginning, options)
    /\ budget' = budget - 1
    /\ UNCHANGED <<dialog, promises, layoutIdle>>

-----------------------------------------------------------------------------
(* Spec: every public operation, from construction on.                     *)

\* The section lists update is called with: distinct ids, in any order; A is
\* the section that may hold no item
SectionLists ==
    {s \in UNION {[1..n -> [id : ListedIds, count : Counts]] :
                      n \in 0..Cardinality(ListedIds)} :
        /\ \A i, j \in 1..Len(s) : i # j => s[i].id # s[j].id
        /\ \A i \in 1..Len(s) : s[i].count = 0 => s[i].id = "A"}

\* The (initialSizes, collapsedState) the Layout is constructed with: nothing
\* stored, or B stored collapsed with the height it had when it was expanded
ConstructorArgs ==
    {[initialSizes |-> [id \in SectionIds |-> undefined],
      collapsedState |-> [id \in SectionIds |-> FALSE]],
     [initialSizes |-> [id \in SectionIds |-> IF id = "B" THEN Num(300) ELSE undefined],
      collapsedState |-> [id \in SectionIds |-> id = "B"]]}

HandleSlots == {1}

\* new Layout(applyHeight, initialSizes, collapsedState)
Init ==
    /\ sections = <<>>
    /\ \E a \in ConstructorArgs : /\ collapsedState = a.collapsedState
                                  /\ sectionHeights = a.initialSizes
    /\ availableHeight = Num(0)
    /\ heights = <<>>
    /\ handles = [k \in {1, 2} |-> NoHandle]
    /\ applied = <<>>
    /\ lastOp = Called("constructor", "", 0, undefined, <<>>, FALSE)
    /\ prevOp = <<"", 0>>
    /\ budget = MaxOps
    /\ internal = Internal(0, <<>>, undefined)
    /\ dialog = DialogDefaults
    /\ exporter = NoExporter
    /\ promises = NoPromises

Next ==
    \/ \E secs \in SectionLists, h \in AvailableHeights : update(secs, Num(h))
    \/ \E h \in AvailableHeights : setAvailableHeight(Num(h))
    \/ \E id \in ListedIds, h \in Heights : expandSection(id, Num(h))
    \/ \E id \in ListedIds : collapseSection(id)
    \/ \E k \in HandleSlots, id \in ListedIds : openHandle(k, id)
    \/ \E k \in HandleSlots, h \in Heights : Handle_setHeight(k, Num(h))
    \/ \E k \in HandleSlots : Handle_finish(k)

Spec == Init /\ [][Next]_vars

-----------------------------------------------------------------------------
(* SpecDrag: drags with two Handles on a laid-out list of three sections.  *)

\* The sections the Layout is constructed collapsed with
DragCollapsed == {{}, {"A"}, {"C"}, {"B", "C"}}

DragHandleSlots == {1, 2}

DragAvailableHeight == Num(400)

\* new Layout(applyHeight, {}, collapsedState) and the host's first
\* update(DragSections, DragAvailableHeight)
InitDrag ==
    /\ \E cs \in DragCollapsed :
          LET C == [id \in SectionIds |-> id \in cs]
              r == UpdateResult(DragSections, DragAvailableHeight, <<>>, C, Num(0),
                                [id \in SectionIds |-> undefined], <<>>)
          IN /\ collapsedState = C
             /\ sections = r.sections
             /\ availableHeight = r.availableHeight
             /\ sectionHeights = r.sectionHeights
             /\ heights = r.heights
             /\ applied = r.calls
             /\ internal = Internal(0, r.overflows, undefined)
    /\ handles = [k \in {1, 2} |-> NoHandle]
    /\ lastOp = Called("update", "", 0, DragAvailableHeight, DragSections, FALSE)
    /\ prevOp = <<"", 0>>
    /\ budget = MaxDragOps
    /\ dialog = DialogDefaults
    /\ exporter = NoExporter
    /\ promises = NoPromises

\* The drag operations, and the host calling update again with the list and
\* the height the Layout already has
NextDrag ==
    \/ \E k \in DragHandleSlots, id \in SectionIds : openHandle(k, id)
    \/ \E k \in DragHandleSlots, h \in DragHeights : Handle_setHeight(k, Num(h))
    \/ \E k \in DragHandleSlots : Handle_finish(k)
    \/ update(sections, availableHeight)

SpecDrag == InitDrag /\ [][NextDrag]_vars

-----------------------------------------------------------------------------
(* SpecResize: the two-section list A (3 items), B (5 items), alone, cut   *)
(* to A and with a section C above it, with container heights that are    *)
(* not all finite.                                                         *)

\* The lists update is called with, the container heights (numbers of any
\* kind) and the heights asked of setHeight and expandSection
ResizeSections == <<[id |-> "A", count |-> 3], [id |-> "B", count |-> 5]>>

ResizeLists ==
    {ResizeSections,
     <<[id |-> "A", count |-> 3]>>,
     <<[id |-> "C", count |-> 3]>> \o ResizeSections}

ResizeAvailableHeights == {Num(400), Num(150), NaN, Infinity, Neg(Infinity)}

ResizeHeights == {Num(50), Num(300)}

\* new Layout(applyHeight, {}, {})
InitResize ==
    /\ sections = <<>>
    /\ collapsedState = [id \in SectionIds |-> FALSE]
    /\ sectionHeights = [id \in SectionIds |-> undefined]
    /\ availableHeight = Num(0)
    /\ heights = <<>>
    /\ handles = [k \in {1, 2} |-> NoHandle]
    /\ applied = <<>>
    /\ lastOp = Called("constructor", "", 0, undefined, <<>>, FALSE)
    /\ prevOp = <<"", 0>>
    /\ budget = MaxResizeOps
    /\ internal = Internal(0, <<>>, undefined)
    /\ dialog = DialogDefaults
    /\ exporter = NoExporter
    /\ promises = NoPromises

NextResize ==
    \/ \E secs \in ResizeLists, h \in ResizeAvailableHeights : update(secs, h)
    \/ \E h \in ResizeAvailableHeights : setAvailableHeight(h)
    \/ \E id \in ListedIds, h \in ResizeHeights : expandSection(id, h)
    \/ \E id \in ListedIds : collapseSection(id)
    \/ \E id \in ListedIds : openHandle(1, id)
    \/ \E h \in ResizeHeights : Handle_setHeight(1, h)
    \/ Handle_finish(1)

SpecResize == InitResize /\ [][NextResize]_vars

-----------------------------------------------------------------------------
(* SpecOrder: drags on a list of four sections that the Layout was         *)
(* constructed with stored heights for, so that sections on both sides of  *)
(* the anchor start at, near and far from their bounds.                    *)

OrderIds == {"A", "B", "C", "D"}

OrderSections == <<[id |-> "A", count |-> 3], [id |-> "B", count |-> 3],
                   [id |-> "C", count |-> 3], [id |-> "D", count |-> 3]>>

\* The heights stored for A, B, C, D from an earlier session (0: none stored)
OrderInitialSizes ==
    {<<0, 0, 0, 0>>, <<80, 80, 200, 200>>, <<200, 80, 80, 200>>,
     <<200, 200, 80, 80>>, <<80, 200, 200, 80>>}

\* The sections the Layout is constructed collapsed with
OrderCollapsed == {{}, {"B"}, {"C"}}

OrderAvailableHeight == Num(563)

OrderHeights == {50, 120, 200, 300}

\* new Layout(applyHeight, initialSizes, collapsedState) and the host's first
\* update(OrderSections, OrderAvailableHeight)
InitOrder ==
    /\ \E sizes \in OrderInitialSizes, cs \in OrderCollapsed :
          LET C == [id \in OrderIds |-> id \in cs]
              SH == [id \in OrderIds |->
                        LET p == PositionIn(OrderSections, id)
                        IN IF sizes[p] = 0 THEN undefined ELSE Num(sizes[p])]
              r == UpdateResult(OrderSections, OrderAvailableHeight, <<>>, C, Num(0),
                                SH, <<>>)
          IN /\ collapsedState = C
             /\ sections = r.sections
             /\ availableHeight = r.availableHeight
             /\ sectionHeights = r.sectionHeights
             /\ heights = r.heights
             /\ applied = r.calls
             /\ internal = Internal(0, r.overflows, undefined)
    /\ handles = [k \in {1, 2} |-> NoHandle]
    /\ lastOp = Called("update", "", 0, OrderAvailableHeight, OrderSections, FALSE)
    /\ prevOp = <<"", 0>>
    /\ budget = MaxOrderOps
    /\ dialog = DialogDefaults
    /\ exporter = NoExporter
    /\ promises = NoPromises

NextOrder ==
    \/ \E id \in OrderIds : openHandle(1, id)
    \/ \E h \in OrderHeights : Handle_setHeight(1, Num(h))
    \/ Handle_finish(1)

SpecOrder == InitOrder /\ [][NextOrder]_vars

-----------------------------------------------------------------------------
(* SpecStale: a Handle that is kept while the container is resized, on     *)
(* lists that are already laid out.                                        *)

StaleLists ==
    {ResizeSections,
     <<[id |-> "B", count |-> 5], [id |-> "A", count |-> 3]>>,
     <<[id |-> "C", count |-> 3]>> \o ResizeSections}

StaleAvailableHeights == {150, 400}

StaleHeights == {50, 120, 200}

\* new Layout(applyHeight, {}, {}) and the host's first update(list, 400)
InitStale ==
    /\ \E secs \in StaleLists :
          LET C == [id \in SectionIds |-> FALSE]
              r == UpdateResult(secs, Num(400), <<>>, C, Num(0),
                                [id \in SectionIds |-> undefined], <<>>)
          IN /\ collapsedState = C
             /\ sections = r.sections
             /\ availableHeight = r.availableHeight
             /\ sectionHeights = r.sectionHeights
             /\ heights = r.heights
             /\ applied = r.calls
             /\ internal = Internal(0, r.overflows, undefined)
             /\ lastOp = Called("update", "", 0, Num(400), secs, FALSE)
    /\ handles = [k \in {1, 2} |-> NoHandle]
    /\ prevOp = <<"", 0>>
    /\ budget = MaxStaleOps
    /\ dialog = DialogDefaults
    /\ exporter = NoExporter
    /\ promises = NoPromises

NextStale ==
    \/ \E id \in ListedIds : openHandle(1, id)
    \/ \E h \in StaleAvailableHeights : setAvailableHeight(Num(h))
    \/ \E h \in StaleHeights : Handle_setHeight(1, Num(h))
    \/ Handle_finish(1)

SpecStale == InitStale /\ [][NextStale]_vars

-----------------------------------------------------------------------------
(* SpecExport: the export test's constructions and the export dialog.      *)

\* What is typed into the message count field and into the size limit field
MessageInputs == {0, 5, 10^9}

SizeInputs == {0, 100, 4096}

\* The options the test constructs exporters with
TestExportOptions ==
    {mockExportOptions} \cup {invalidExportOptions[k] : k \in 1..Len(invalidExportOptions)}

\* The dialog as it is mounted, no exporter; the Layout is constructed and not
\* called
InitExport ==
    /\ dialog = DialogDefaults
    /\ exporter = NoExporter
    /\ promises = NoPromises
    /\ sections = <<>>
    /\ collapsedState = [id \in SectionIds |-> FALSE]
    /\ sectionHeights = [id \in SectionIds |-> undefined]
    /\ availableHeight = Num(0)
    /\ heights = <<>>
    /\ handles = [k \in {1, 2} |-> NoHandle]
    /\ applied = <<>>
    /\ lastOp = Called("constructor", "", 0, undefined, <<>>, FALSE)
    /\ prevOp = <<"", 0>>
    /\ budget = MaxExportOps
    /\ internal = Internal(0, <<>>, undefined)

NextExport ==
    \/ \E key \in ExportFormats : setExportFormat(key)
    \/ \E key \in ExportTypes : setExportType(key)
    \/ \E n \in MessageInputs : setNumberOfMessages(n)
    \/ \E size \in SizeInputs : setSizeLimit(size)
    \/ \E checked \in BOOLEAN : setAttachments(checked)
    \/ onExportClick
    \/ \E k \in DOMAIN promises.validate : onExportClick_isValidSize(k)
    \/ \E k \in DOMAIN promises.validate : onExportClick_isValidNumberOfMessages(k)
    \/ \E k \in DOMAIN promises.export : exportResolved(k)
    \/ onCancel
    \/ onContinue
    \/ confirmCanel
    \/ \E k \in DOMAIN promises.cancel : cancelResolved(k)
    \/ \E options \in TestExportOptions : newPlainTextExporter(options)

SpecExport == InitExport /\ [][NextExport]_vars

-----------------------------------------------------------------------------
(* Properties.                                                             *)

Le(a, b) == Lt(a, b) \/ NumEq(a, b)

\* |a - b| <= 1.0
Near(a, b) == Le(Abs(Sub(a, b)), Num(1))

\* 2^-20: more than the rounding errors of the additions and subtractions of
\* one operation add up to, for heights up to the maximal 100000 (a rounding
\* error is at most 2^-37 there)
RoundingError == <<1, LimbHi, 0, -20>>

\* a and b are equal but for rounding errors
Close(a, b) == Le(Abs(Sub(a, b)), RoundingError)

Listed == 1..Len(sections)

\* The committed height of the section at position i
Committed(i) == sectionHeights[sections[i].id]

MinHeight(i) == _getMinHeight(sections, collapsedState, i - 1)

MaxHeight(i) == _getMaxHeight(sections, collapsedState, i - 1)

Collapsed(i) == collapsedState[sections[i].id]

CommittedHeights == StoredHeights(sections, sectionHeights)

CommittedSum == SumHeights(CommittedHeights, 1)

\* availableHeight - (nonCollapsedCount - 1) * handleHeight
TargetSum == _getAvailableHeight(sections, collapsedState, availableHeight)

\* The target lies between the sum of the minHeights and that of the maxHeights
TargetSatisfiable ==
    /\ Le(SumHeights([i \in Listed |-> MinHeight(i)], 1), TargetSum)
    /\ Le(TargetSum, SumHeights([i \in Listed |-> MaxHeight(i)], 1))

\* The anchor position of the Handle in slot k, when it is a listed one
AnchorListed(k) == handles[k].anchor >= 0 /\ handles[k].anchor < Len(sections)

\* C1: in every state the committed height of every listed section lies in
\* [minHeight, maxHeight] (so after an update, setAvailableHeight,
\* collapseSection, expandSection and after a drag's finish).
C1_CommittedWithinBounds ==
    \A i \in Listed : Le(MinHeight(i), Committed(i)) /\ Le(Committed(i), MaxHeight(i))

\* The committed drag of an expandSection that pulled the section from the
\* height the redistribution gave it down to its minHeight
C1_Witness ==
    /\ lastOp.op = "expandSection"
    /\ ~lastOp.threw
    /\ Len(sections) = 2
    /\ LET a == PositionIn(sections, lastOp.id)
       IN /\ Committed(a) = MinHeight(a)
          /\ Gt(applied[a][2], MinHeight(a))
          /\ Gt(lastOp.arg, Num(0)) /\ Lt(lastOp.arg, MinHeight(a))
          /\ \E j \in Listed : Gt(Committed(j), MinHeight(j))

\* C2: after update(sections, availableHeight) the committed heights sum to
\* availableHeight - (nonCollapsedCount - 1) * handleHeight within 1.0; stated
\* for the lists whose bounds admit that sum (for the others the claimed sum
\* contradicts C1 outright).
C2_UpdateSumsToTarget ==
    (lastOp.op = "update" /\ TargetSatisfiable) => Near(CommittedSum, TargetSum)

\* C3: a setHeight of a drag that starts where the committed heights sum to the
\* target leaves in-progress heights that sum to the target within 1.0 (the
\* heights a finish then commits).
C3_DragKeepsSum ==
    (lastOp.op = "setHeight" /\ ~lastOp.threw /\ NumEq(CommittedSum, TargetSum))
        => Near(SumHeights(heights, 1), TargetSum)

\* C4: update with the stored section list (same ids and counts, same order)
\* and the stored availableHeight changes neither the committed heights, the
\* collapsed state, the in-progress heights nor the list, and calls applyHeight
\* for no section.
C4_UnchangedUpdateIsNoop ==
    [][(lastOp'.op = "update" /\ lastOp'.secs = sections /\ lastOp'.arg = availableHeight)
          => (/\ UNCHANGED <<sections, collapsedState, availableHeight,
                             sectionHeights, heights>>
              /\ applied' = <<>>)]_vars

\* update with unchanged arguments right after a drag was committed that moved
\* its anchor
C4_Witness ==
    /\ lastOp.op = "update"
    /\ prevOp[1] = "finish"
    /\ AnchorListed(prevOp[2])
    /\ handles[prevOp[2]].initialHeight # Committed(handles[prevOp[2]].anchor + 1)
    /\ heights = CommittedHeights

\* C5: the in-progress heights after setHeight(h) are those of a single
\* setHeight(h) of that Handle on the committed heights: they do not depend on
\* the in-progress heights the earlier setHeight calls of the drag left.
C5_SetHeightFromCommitted ==
    (lastOp.op = "setHeight" /\ ~lastOp.threw)
        => heights = _relayout(handles[lastOp.handle].anchor,
                               Sub(lastOp.arg, handles[lastOp.handle].initialHeight),
                               FALSE, <<>>, sections, collapsedState, sectionHeights).heights

\* A second setHeight of a drag in progress
C5_Witness ==
    /\ lastOp.op = "setHeight"
    /\ ~lastOp.threw
    /\ prevOp = <<"setHeight", lastOp.handle>>
    /\ heights # CommittedHeights

\* C6: every listed section whose collapsed flag is set has committed height
\* sectionHeight(0) = 36.
C6_CollapsedAtHeader ==
    \A i \in Listed : Collapsed(i) => Committed(i) = _sectionHeight(0)

\* collapseSection on a listed section whose space went to an expanded one
C6_Witness ==
    /\ lastOp.op = "collapseSection"
    /\ \E i \in Listed : /\ sections[i].id = lastOp.id
                         /\ Committed(i) = Num(36)
    /\ \E j \in Listed : ~Collapsed(j) /\ Gt(Committed(j), _sectionHeight(1))

\* C7 as claimed: after expandSection(id, height) on a listed section the
\* committed height of id is at least sectionHeight(1) = 74.
C7_ExpandedAtLeast74 ==
    (lastOp.op = "expandSection" /\ ~lastOp.threw)
        => Le(_sectionHeight(1), sectionHeights[lastOp.id])

\* C7 amended: the committed height of every listed section that is not
\* collapsed is at least sectionHeight(min(count, 1)): 74 with one item or
\* more, 36 with none.
C7_ExpandedAtLeastMin ==
    \A i \in Listed :
        ~Collapsed(i) => Le(_sectionHeight(IF sections[i].count = 0 THEN 0 ELSE 1),
                            Committed(i))

\* expandSection on a listed section without items, which ends below 74
C7_Witness ==
    /\ lastOp.op = "expandSection"
    /\ ~lastOp.threw
    /\ \E i \in Listed : /\ sections[i].id = lastOp.id
                         /\ sections[i].count = 0
                         /\ Lt(Committed(i), _sectionHeight(1))

\* C8 as claimed: setHeight changes no committed state, and the finish of
\* another Handle does not commit the heights of the drag.
C8_OtherFinishKeepsCommitted ==
    [][/\ lastOp'.op = "setHeight"
          => UNCHANGED <<sectionHeights, collapsedState, availableHeight, sections>>
       /\ (lastOp.op = "setHeight" /\ lastOp'.op = "finish"
           /\ lastOp'.handle # lastOp.handle)
          => sectionHeights' = sectionHeights]_vars

\* C8 amended: setHeight, openHandle and an update with unchanged arguments
\* change no committed state, so a drag stays uncommitted until a finish; the
\* finish of any Handle of the Layout commits the in-progress heights.
C8_UncommittedUntilFinish ==
    [][/\ lastOp'.op \in {"setHeight", "openHandle"}
          => UNCHANGED <<sectionHeights, collapsedState, availableHeight, sections>>
       /\ (lastOp'.op = "update" /\ lastOp'.secs = sections
           /\ lastOp'.arg = availableHeight)
          => UNCHANGED <<sectionHeights, collapsedState, availableHeight, sections>>
       /\ lastOp'.op = "finish"
          => \A i \in Listed : sectionHeights'[sections[i].id] = heights[i]]_vars

\* A drag left uncommitted while another Handle is opened
C8_Witness ==
    /\ lastOp.op = "openHandle"
    /\ lastOp.handle = 2
    /\ prevOp = <<"setHeight", 1>>
    /\ heights # CommittedHeights

\* The height of the last applyHeight(id, height) call among `calls`
RECURSIVE LastApplied(_, _, _)
LastApplied(calls, id, k) ==
    IF k = 0 THEN undefined
    ELSE IF calls[k][1] = id THEN calls[k][2]
    ELSE LastApplied(calls, id, k - 1)

\* C9: finish right after the Handle's setHeight commits, for every listed
\* section, the height that setHeight last passed to applyHeight; and
\* openHandle takes the committed height of its section as the drag origin.
C9_FinishCommitsApplied ==
    [][/\ (lastOp'.op = "finish" /\ lastOp.op = "setHeight" /\ ~lastOp.threw
           /\ lastOp.handle = lastOp'.handle)
          => \A i \in Listed :
                sectionHeights'[sections[i].id] = LastApplied(applied, sections[i].id, Len(applied))
       /\ lastOp'.op = "openHandle"
          => handles'[lastOp'.handle].initialHeight = sectionHeights[lastOp'.id]]_vars

\* A Handle opened right after a committed drag on the same section starts
\* from the height that drag committed
C9_Witness ==
    /\ lastOp.op = "openHandle"
    /\ prevOp = <<"finish", 1>>
    /\ lastOp.handle = 2
    /\ AnchorListed(2)
    /\ handles[1].anchor = handles[2].anchor
    /\ handles[2].initialHeight # handles[1].initialHeight
    /\ handles[2].initialHeight = Committed(handles[2].anchor + 1)

\* The last operation was update with a changed list or height,
\* setAvailableHeight, collapseSection, expandSection or setHeight, and returned
ChangingOp ==
    \/ lastOp'.op \in {"setAvailableHeight", "collapseSection"}
    \/ lastOp'.op \in {"expandSection", "setHeight"} /\ ~lastOp'.threw
    \/ /\ lastOp'.op = "update"
       /\ \/ lastOp'.secs # sections
          \/ IsFinite(lastOp'.arg) /\ lastOp'.arg # availableHeight

\* C10: such an operation calls applyHeight for every listed section, with or
\* without a change of its height, and the last height passed for a section is
\* the one the Layout then holds: in progress after setHeight, committed after
\* the others.
C10_AppliesEverySection ==
    [][ChangingOp =>
          \A i \in 1..Len(sections') :
             /\ \E k \in 1..Len(applied') : applied'[k][1] = sections'[i].id
             /\ LastApplied(applied', sections'[i].id, Len(applied'))
                   = IF lastOp'.op = "setHeight" THEN heights'[i]
                     ELSE sectionHeights'[sections'[i].id]]_vars

\* A setHeight that changed no height and still called applyHeight for both
\* sections
C10_Witness ==
    /\ lastOp.op = "setHeight"
    /\ ~lastOp.threw
    /\ Len(sections) = 2
    /\ heights = CommittedHeights
    /\ Len(applied) = 2

\* C11: openHandle(id) with an id that is not in the section list fails: the
\* call throws (or returns an error) and hands out no Handle.
C11_OpenHandleRejectsUnknownId ==
    (lastOp.op = "openHandle" /\ _getSectionIndex(sections, lastOp.id) = -1)
        => (lastOp.threw /\ handles[lastOp.handle] = NoHandle)

\* C12: update(sections, availableHeight) with an availableHeight that is not
\* finite keeps the stored available height. A changed section list is still
\* adopted, and laid out as update with the stored available height lays it
\* out; with an unchanged list the call changes nothing and applies nothing.
C12_UpdateIgnoresNonFiniteHeight ==
    [][(lastOp'.op = "update" /\ ~IsFinite(lastOp'.arg)) =>
          /\ availableHeight' = availableHeight
          /\ IF SectionsChanged(lastOp'.secs, sections)
             THEN LET r == UpdateResult(lastOp'.secs, availableHeight, sections,
                                        collapsedState, availableHeight,
                                        sectionHeights, heights)
                  IN /\ sections' = lastOp'.secs
                     /\ sectionHeights' = r.sectionHeights
                     /\ heights' = r.heights
                     /\ applied' = r.calls
                     /\ Len(applied') = Len(sections')
             ELSE /\ UNCHANGED <<sections, sectionHeights, heights>>
                  /\ applied' = <<>>]_vars

\* update([A], 400) followed by update([A, B], NaN): the list of two is laid
\* out, the available height is still 400
C12_Witness ==
    /\ lastOp.op = "update"
    /\ IsNaN(lastOp.arg)
    /\ sections = ResizeSections
    /\ applied # <<>>
    /\ availableHeight = Num(400)
    /\ internal.overflows # <<>>

\* C13: setAvailableHeight with a value that is not finite is a no-op: the
\* stored available height and every committed section height stay as they
\* were.
C13_SetAvailableHeightIgnoresNonFinite ==
    [][(lastOp'.op = "setAvailableHeight" /\ ~IsFinite(lastOp'.arg)) =>
          UNCHANGED <<availableHeight, sectionHeights>>]_vars

\* The position of id in the section list of the state
PositionOf(id) == PositionIn(sections, id)

\* What the sections at the positions ps can still absorb when the section
\* next to them changes by offset, from the heights hs and with the collapsed
\* state C: the room down to their minHeights when it grows, up to their
\* maxHeights when it shrinks
Slack(ps, hs, C, offset) ==
    SumHeights([i \in 1..Len(sections) |->
                   IF i \notin ps THEN Num(0)
                   ELSE IF Lt(offset, Num(0))
                        THEN Sub(_getMaxHeight(sections, C, i - 1), hs[i])
                        ELSE Sub(hs[i], _getMinHeight(sections, C, i - 1))], 1)

\* expandSection(id, height) asks for a height within the expanded bounds of
\* the listed section id, and the sections at the positions ps(p), p the
\* position of id, can absorb the change from the heights that the
\* redistribution of expandSection gives
ExpandAbsorbed(id, height, ps(_)) ==
    LET p == PositionOf(id)
        C == [collapsedState EXCEPT ![id] = FALSE]
        r == _applyNewSize(sections, C, sectionHeights, availableHeight)
        offset == Sub(height, r.heights[p])
    IN /\ Le(_getMinHeight(sections, C, p - 1), height)
       /\ Le(height, _getMaxHeight(sections, C, p - 1))
       /\ Le(Abs(offset), Slack(ps(p), r.heights, C, offset))

OtherSections(p) == (1..Len(sections)) \ {p}

SectionsUnder(p) == (p + 1)..Len(sections)

\* C14 as claimed: expandSection(id, height) on a listed section leaves id
\* expanded and, when height is within its expanded bounds and the other
\* sections together can absorb the change, committed at height (but for the
\* rounding of height - stored + stored).
C14_ExpandReachesHeight ==
    [][(/\ lastOp'.op = "expandSection"
        /\ PositionOf(lastOp'.id) > 0
        /\ ExpandAbsorbed(lastOp'.id, lastOp'.arg, OtherSections))
          => /\ ~collapsedState'[lastOp'.id]
             /\ Close(sectionHeights'[lastOp'.id], lastOp'.arg)]_vars

\* C14 as amended: expandSection(id, height) on a listed section leaves id
\* expanded, and when height is within its expanded bounds and the sections
\* listed below id can absorb the change, id is committed at height (but for
\* the rounding of height - stored + stored).
C14_ExpandReachesHeightBelow ==
    [][(lastOp'.op = "expandSection" /\ PositionOf(lastOp'.id) > 0)
          => /\ ~collapsedState'[lastOp'.id]
             /\ ExpandAbsorbed(lastOp'.id, lastOp'.arg, SectionsUnder)
                   => Close(sectionHeights'[lastOp'.id], lastOp'.arg)]_vars

\* expandSection(id, 120) on the first of two sections with items: the
\* redistribution gave it another height, the drag by the difference was not
\* cut short, and it is committed at 120, the section below it having absorbed
\* the difference
C14_Witness ==
    /\ lastOp.op = "expandSection"
    /\ ~lastOp.threw
    /\ Len(sections) = 2
    /\ lastOp.id = sections[1].id
    /\ sections[1].count = 3
    /\ lastOp.arg = Num(120)
    /\ Committed(1) = Num(120)
    /\ applied[1][1] = lastOp.id
    /\ applied[1][2] # Num(120)
    /\ applied[2][2] # Committed(2)
    /\ internal.ret = undefined

\* The four 14-bit limbs of the significand of a finite number other than 0
Limbs(x) ==
    <<x[3] % 2^14,
      (x[3] \div 2^14) + (x[2] % 8) * 2^11,
      (x[2] \div 8) % 2^14,
      x[2] \div 2^17>>

\* The sum of the limb products of weight 2^(14 * k), k in 0..6
Column(a, b, k) ==
    LET P(i) == IF k - i \in 0..3 THEN a[i + 1] * b[k - i + 1] ELSE 0
    IN P(0) + P(1) + P(2) + P(3)

\* a * b, rounded as the other operations are, for the properties that
\* compare ratios (the code itself does not multiply heights)
Mul(a, b) ==
    LET x == ToNumber(a)
        y == ToNumber(b)
    IN IF IsNaN(x) \/ IsNaN(y) THEN NaN
       ELSE IF ~IsFinite(x) \/ ~IsFinite(y)
       THEN (IF x = Zero \/ y = Zero THEN NaN ELSE <<x[1] * y[1], 0, 0, 1024>>)
       ELSE IF x = Zero \/ y = Zero THEN Zero
       ELSE LET u == Limbs(x)
                v == Limbs(y)
                c0 == Column(u, v, 0)
                c1 == Column(u, v, 1) + (c0 \div 2^14)
                c2 == Column(u, v, 2) + (c1 \div 2^14)
                c3 == Column(u, v, 3) + (c2 \div 2^14)
                c4 == Column(u, v, 4) + (c3 \div 2^14)
                c5 == Column(u, v, 5) + (c4 \div 2^14)
                c6 == Column(u, v, 6) + (c5 \div 2^14)
                d3 == c3 % 2^14
                d5 == c5 % 2^14
                lost == c0 % 2^14 # 0 \/ c1 % 2^14 # 0 \/ c2 % 2^14 # 0 \/ d3 % 2^8 # 0
            IN Normalize(x[1] * y[1],
                         (d5 \div 2^8) + (c6 % 2^14) * 2^6 + (c6 \div 2^14) * 2^20,
                         Sticky((d3 \div 2^8) + (c4 % 2^14) * 2^6 + (d5 % 2^8) * 2^20, lost),
                         x[4] + y[4] + 1)

\* The section at position i is committed strictly inside its bounds
Unclamped(i) == Lt(MinHeight(i), Committed(i)) /\ Lt(Committed(i), MaxHeight(i))

\* C15 as claimed: setAvailableHeight keeps the ratios between the heights
\* of the sections that it leaves off their bounds: the new height of one is,
\* within 1.0, the new height of the other times the ratio their heights had.
C15_ResizeKeepsRatios ==
    [][(lastOp'.op = "setAvailableHeight" /\ IsFinite(lastOp'.arg)) =>
          \A i, j \in Listed :
             (Unclamped(i)' /\ Unclamped(j)')
                => Le(Abs(Sub(Mul(Committed(i)', Committed(j)),
                              Mul(Committed(i), Committed(j)'))),
                      Committed(j))]_vars

\* C15 as amended: setAvailableHeight changes the sections that it leaves
\* off their bounds by one and the same amount, but for rounding errors, so
\* it keeps the differences between their heights.
C15_ResizeKeepsDifferences ==
    [][(lastOp'.op = "setAvailableHeight" /\ IsFinite(lastOp'.arg)) =>
          \A i, j \in Listed :
             (Unclamped(i)' /\ Unclamped(j)')
                => Close(Sub(Committed(i)', Committed(i)),
                         Sub(Committed(j)', Committed(j)))]_vars

\* setAvailableHeight has changed the container height and left two sections
\* of different heights off their bounds
C15_Witness ==
    /\ lastOp.op = "setAvailableHeight"
    /\ Len(sections) = 2
    /\ Unclamped(1)
    /\ Unclamped(2)
    /\ Committed(1) # Committed(2)
    /\ applied # <<>>
    /\ NumEq(CommittedSum, TargetSum)
    /\ Len(internal.overflows[1]) = 1

\* 199.5
ExampleSeed == Div(Num(399), 2)

\* C16: A (3 items) and B (5 items) with no stored heights and nothing
\* collapsed: update with the container height 400 commits 199.5 for each, 399
\* in all; collapseSection(A) then commits 36 for A and, within 1.0, 363 for
\* B, which grows by all that A gave up, within 1.0 of 163.
C16_TwoSectionExample ==
    [][/\ (/\ lastOp'.op = "update"
           /\ lastOp'.secs = ResizeSections
           /\ lastOp'.arg = Num(400)
           /\ \A id \in ListedIds : sectionHeights[id] = undefined /\ ~collapsedState[id])
          => /\ sectionHeights'["A"] = ExampleSeed
             /\ sectionHeights'["B"] = ExampleSeed
             /\ SumHeights(StoredHeights(sections', sectionHeights'), 1) = Num(399)
       /\ (/\ lastOp'.op = "collapseSection"
           /\ lastOp'.id = "A"
           /\ sections = ResizeSections
           /\ availableHeight = Num(400)
           /\ \A id \in ListedIds : sectionHeights[id] = ExampleSeed /\ ~collapsedState[id])
          => /\ sectionHeights'["A"] = Num(36)
             /\ Near(sectionHeights'["B"], Num(363))
             /\ Near(Sub(sectionHeights["A"], sectionHeights'["A"]), Num(163))
             /\ Le(Sub(sectionHeights["A"], sectionHeights'["A"]),
                   Sub(sectionHeights'["B"], sectionHeights["B"]))]_vars

\* The example after collapseSection(A): A committed at 36, B at 364, both
\* applied
C16_Witness ==
    /\ lastOp.op = "collapseSection"
    /\ lastOp.id = "A"
    /\ sections = ResizeSections
    /\ availableHeight = Num(400)
    /\ collapsedState["A"] /\ ~collapsedState["B"]
    /\ sectionHeights["A"] = Num(36)
    /\ sectionHeights["B"] = Num(364)
    /\ applied = <<<<"A", Num(36)>>, <<"B", Num(364)>>>>
    /\ budget = MaxResizeOps - 2

\* The position of the anchor of the Handle that the last setHeight was
\* called on, and the offset of that call from the committed height
DragAnchor == handles[lastOp.handle].anchor + 1

DragOffset == Sub(lastOp.arg, handles[lastOp.handle].initialHeight)

\* The last operation was a setHeight that asked for a height of the anchor
\* below its minHeight
DraggedBelowMin ==
    /\ lastOp.op = "setHeight"
    /\ ~lastOp.threw
    /\ Lt(Add(Committed(DragAnchor), DragOffset), MinHeight(DragAnchor))

\* What the sections at the positions ps have grown by in the drag, and what
\* they have given up
Grown(ps) ==
    SumHeights([i \in Listed |-> IF i \in ps THEN Sub(heights[i], Committed(i))
                                 ELSE Num(0)], 1)

GivenUp(ps) == Neg(Grown(ps))

\* C17 as claimed: a drag that asks for a height of the anchor below its
\* minHeight leaves the anchor at its minHeight and the sections below it
\* grown by exactly what the anchor gave up; with A of 3 items dragged from
\* 199.5 in the list A, B at 400, A is at 74 and B at 325.
C17_MinClampGoesBelow ==
    DraggedBelowMin =>
       /\ heights[DragAnchor] = MinHeight(DragAnchor)
       /\ Grown(SectionsUnder(DragAnchor)) = GivenUp({DragAnchor})
       /\ (/\ sections = ResizeSections
           /\ DragAnchor = 1
           /\ CommittedHeights = <<ExampleSeed, ExampleSeed>>
           /\ ~Collapsed(1) /\ ~Collapsed(2))
             => heights = <<Num(74), Num(325)>>

\* C17 as amended: when the sections below the anchor have the slack for the
\* offset asked for, such a drag leaves the anchor at its minHeight and the
\* sections below it grown, within 1.0, by what the anchor and the sections
\* above it gave up; the example is as claimed.
C17_MinClampGoesBelowFromAbove ==
    DraggedBelowMin =>
       /\ Le(Abs(DragOffset),
             Slack(SectionsUnder(DragAnchor), CommittedHeights, collapsedState, DragOffset))
             => /\ heights[DragAnchor] = MinHeight(DragAnchor)
                /\ Near(Grown(SectionsUnder(DragAnchor)),
                        GivenUp(1..DragAnchor))
       /\ (/\ sections = ResizeSections
           /\ DragAnchor = 1
           /\ CommittedHeights = <<ExampleSeed, ExampleSeed>>
           /\ ~Collapsed(1) /\ ~Collapsed(2))
             => heights = <<Num(74), Num(325)>>

\* A drag of the middle of three sections below its minHeight: it is at its
\* minHeight 74, the section above it has shrunk and the section below it has
\* grown by what the two gave up
C17_Witness ==
    /\ DraggedBelowMin
    /\ Len(sections) = 3
    /\ DragAnchor = 2
    /\ heights[2] = Num(74)
    /\ Lt(heights[1], Committed(1))
    /\ Gt(heights[3], Committed(3))
    /\ Grown({3}) = GivenUp({1, 2})
    /\ internal.relayouts = 1

\* The _applyOverflow calls of one chain: a call and the calls nested in it
OverflowChains == {internal.overflows[c] : c \in 1..Len(internal.overflows)}

\* C19: every operation ends. Each nested call of _applyOverflow is made, with
\* overflow above 1.0 left, on the caller's unclamped sections, which are
\* fewer than the sections the caller was given, so a chain has at most as
\* many nested calls as its first call has sections; the last call of a chain
\* leaves an overflow within 1.0 or no unclamped section; and _relayout runs at
\* most twice in one operation.
C19_LayoutTerminates ==
    /\ internal.relayouts <= 2
    /\ \A chain \in OverflowChains :
          /\ Len(chain) >= 1
          /\ Len(chain) - 1 <= Len(chain[1].sections)
          /\ \A k \in 1..(Len(chain) - 1) :
                /\ chain[k + 1].sections = chain[k].unclamped
                /\ Len(chain[k + 1].sections) < Len(chain[k].sections)
                /\ Gt(Abs(chain[k].left), Num(1))
          /\ \/ ~Gt(Abs(chain[Len(chain)].left), Num(1))
             \/ chain[Len(chain)].unclamped = <<>>

\* A redistribution over three sections whose _applyOverflow recursed on the
\* two sections the first pass left unclamped, and a drag that was re-run
C19_Witness ==
    /\ Len(sections) = 3
    /\ \E chain \in OverflowChains :
          /\ Len(chain) = 2
          /\ Len(chain[1].sections) = 3
          /\ Len(chain[2].sections) = 2
    /\ internal.relayouts = 2


\* _relayout(anchor, r) from the committed heights, for the Handle of the last
\* setHeight and the corrected offset r that its _relayout returned
CorrectedDrag ==
    _relayout(handles[lastOp.handle].anchor, internal.ret, FALSE, heights,
              sections, collapsedState, sectionHeights)

\* C20: a drag that could not be absorbed in full ends with the heights of a
\* drag by the corrected offset r that _relayout returned, and r can be
\* absorbed in full: _relayout(anchor, r) from the same committed heights gives
\* these heights in one run, with no overflow above 1.0 left on either side,
\* and returns undefined.
C20_CorrectedOffsetAbsorbed ==
    (lastOp.op = "setHeight" /\ ~lastOp.threw /\ internal.ret # undefined) =>
       /\ CorrectedDrag.heights = heights
       /\ CorrectedDrag.ret = undefined
       /\ CorrectedDrag.runs = 1
       /\ \A chain \in {CorrectedDrag.overflows[c] : c \in 1..Len(CorrectedDrag.overflows)} :
             ~Gt(Abs(chain[Len(chain)].left), Num(1))


\* What the anchor of the last setHeight and the sections above it have
\* changed by in all: the move of the handle below the anchor
AppliedOffset == Grown(1..DragAnchor)

\* The drag moved the handle by the offset asked for and the sections below the
\* anchor took it up, both within 1.0
AppliedInFull ==
    /\ Near(AppliedOffset, DragOffset)
    /\ Near(Grown(SectionsUnder(DragAnchor)), Neg(DragOffset))

\* C21 as claimed: _relayout returns undefined when the requested offset was
\* applied in full, and otherwise the clamped amount: the requested offset
\* minus the offset actually applied.
C21_ReturnsClampedAmount ==
    (lastOp.op = "setHeight" /\ ~lastOp.threw) =>
       IF AppliedInFull THEN internal.ret = undefined
       ELSE internal.ret = Sub(DragOffset, AppliedOffset)

\* C21 as amended: _relayout returns undefined when the requested offset was
\* applied in full, and when the drag was clamped it returns the offset it was
\* clamped at, which differs from the requested one by more than 1.0: the
\* heights are those of its second pass, run with that offset, and the handle
\* has moved by it within 1.0.
C21_ReturnsClampedOffset ==
    (lastOp.op = "setHeight" /\ ~lastOp.threw) =>
       /\ AppliedInFull => internal.ret = undefined
       /\ internal.ret # undefined =>
             /\ internal.relayouts = 2
             /\ Gt(Abs(Sub(internal.ret, DragOffset)), Num(1))
             /\ heights = _relayout(handles[lastOp.handle].anchor, internal.ret, TRUE,
                                    heights, sections, collapsedState,
                                    sectionHeights).heights
             /\ Near(AppliedOffset, internal.ret)

\* A drag of the first of three sections below its minHeight: it returned an
\* offset between the one asked for and 0, the anchor is at its minHeight and
\* the sections below it took up that offset
C21_Witness ==
    /\ lastOp.op = "setHeight"
    /\ ~lastOp.threw
    /\ Len(sections) = 3
    /\ DragAnchor = 1
    /\ internal.ret # undefined
    /\ Lt(DragOffset, internal.ret) /\ Lt(internal.ret, Num(0))
    /\ heights[1] = MinHeight(1)
    /\ Grown({2, 3}) = Neg(internal.ret)


\* C22: in a drag the overflow is absorbed nearest section first, below the
\* anchor in forward order and above it in reverse order: after a setHeight a
\* section on either side of the anchor has changed height only if every
\* section between it and the anchor ends at one of its bounds.
C22_NearestFirst ==
    (lastOp.op = "setHeight" /\ ~lastOp.threw) =>
       \A i \in Listed :
          (i # DragAnchor /\ heights[i] # Committed(i)) =>
             \A j \in Listed :
                ((DragAnchor < j /\ j < i) \/ (i < j /\ j < DragAnchor))
                   => heights[j] \in {MinHeight(j), MaxHeight(j)}

\* A drag of the third of four sections below its minHeight: the section next
\* above it has shrunk to its minHeight, the one above that has shrunk too,
\* and the section below has grown
C22_Witness ==
    /\ lastOp.op = "setHeight"
    /\ ~lastOp.threw
    /\ Len(sections) = 4
    /\ DragAnchor = 3
    /\ Lt(heights[2], Committed(2)) /\ heights[2] = MinHeight(2)
    /\ Lt(heights[1], Committed(1)) /\ Gt(heights[1], MinHeight(1))
    /\ Gt(heights[4], Committed(4))


\* C23: whenever the target total lies between the sum of the minHeights and
\* the sum of the maxHeights of the listed sections, the redistribution that
\* update, setAvailableHeight and collapseSection run ends with committed
\* heights that sum to the target within 1.0.
C23_RedistributionReachesTarget ==
    (/\ lastOp.op \in {"update", "setAvailableHeight", "collapseSection"}
     /\ internal.overflows # <<>>
     /\ TargetSatisfiable)
        => Near(CommittedSum, TargetSum)


\* The last operation was a setHeight on a Handle whose anchor is the last
\* section of the list, asking for a height within the bounds of that section
\* that is more than 1.0 off its committed height
LastSectionDrag ==
    /\ lastOp.op = "setHeight"
    /\ ~lastOp.threw
    /\ DragAnchor = Len(sections)
    /\ Le(MinHeight(DragAnchor), lastOp.arg)
    /\ Le(lastOp.arg, MaxHeight(DragAnchor))
    /\ Gt(Abs(Sub(lastOp.arg, Committed(DragAnchor))), Num(1))

\* C24 as claimed: a Handle on the last section cannot resize it: such a
\* setHeight leaves the in-progress height of every section equal to its
\* committed height.
C24_LastHandleCannotResize ==
    LastSectionDrag => heights = CommittedHeights

\* C24 as amended: the same for a Handle whose drag origin (the height it was
\* opened with) is still the committed height of its section.
C24_FreshLastHandleCannotResize ==
    (LastSectionDrag /\ handles[lastOp.handle].initialHeight = Committed(DragAnchor))
        => heights = CommittedHeights

\* A drag of the last of two or more sections, with a Handle just opened, to a
\* height within its bounds: the relayout was re-run with offset 0 and nothing
\* has moved
C24_Witness ==
    /\ LastSectionDrag
    /\ Len(sections) >= 2
    /\ prevOp = <<"", 0>>
    /\ handles[lastOp.handle].initialHeight = Committed(DragAnchor)
    /\ internal.relayouts = 2
    /\ internal.ret = Num(0)
    /\ heights = CommittedHeights
    /\ Len(applied) = Len(sections)


\* The heights of the drag that the last setHeight asked for, taken alone:
\* _relayout for its Handle from the committed heights, as on a Layout on
\* which no other setHeight was called
DragAlone ==
    _relayout(handles[lastOp.handle].anchor, DragOffset, FALSE, <<>>,
              sections, collapsedState, sectionHeights).heights

\* C25: with two Handles open on one Layout, the finish of one Handle right
\* after the setHeight of the other commits the heights of that other
\* Handle's drag taken alone, also when the Handle that finishes had called
\* setHeight before it: its own change is lost.
C25_FinishCommitsLastDrag ==
    [][(/\ lastOp'.op = "finish"
        /\ lastOp.op = "setHeight"
        /\ ~lastOp.threw
        /\ lastOp'.handle # lastOp.handle)
          => /\ \A i \in Listed : sectionHeights'[sections[i].id] = DragAlone[i]
             /\ prevOp = <<"setHeight", lastOp'.handle>>
                   => \A i \in Listed : sectionHeights'[sections[i].id] = heights[i]]_vars

\* H2.setHeight right after H1.setHeight on another section, before a finish:
\* the in-progress heights are those of H2's drag alone, they differ from the
\* committed ones, and the anchor of H1 is back at its committed height
C25_Witness ==
    /\ lastOp.op = "setHeight"
    /\ ~lastOp.threw
    /\ lastOp.handle = 2
    /\ prevOp = <<"setHeight", 1>>
    /\ AnchorListed(1)
    /\ handles[1].anchor # handles[2].anchor
    /\ heights = DragAlone
    /\ heights # CommittedHeights
    /\ heights[handles[1].anchor + 1] = Committed(handles[1].anchor + 1)
    /\ budget > 0


\* The options are within the ranges of the dialog's validators: maxSize
\* between 1 and 2000 MB, numberOfMessages between 1 and 10^8
WithinDialogRanges(options) ==
    /\ options.maxSize % KiBPerMiB = 0
    /\ onValidateSize(options.maxSize \div KiBPerMiB)
    /\ onValidateNumberOfMessages(options.numberOfMessages)

\* The k-th waiting call of onExportClick goes on to startExport in this step
StartsExport(k) ==
    /\ promises'.validate = Without(promises.validate, k)
    /\ dialog'.isExporting
    /\ exporter' \in startExport(promises.validate[k].closure)

\* C26: whatever was edited in the dialog before, a click on Export that
\* starts the export calls the exporter's constructor with options that are
\* within the ranges of the dialog's validators, whichever message type is
\* selected.
C26_DialogExportsValidOptions ==
    [][\A k \in DOMAIN promises.validate :
          StartsExport(k) => WithinDialogRanges(exporter'.options)]_vars


\* C27: once the cancellation of a running export is confirmed and
\* exportCancelled is set, it stays set and the dialog renders the 'Export
\* Cancelled' view, never the 'Export Successful' one, whenever the promise of
\* export() resolves and whatever is clicked.
C27_CancelledViewStays ==
    [][(dialog.exportCancelled \/ dialog'.exportCancelled)
          => /\ dialog'.exportCancelled
             /\ ExportDialogView(dialog') = "Export Cancelled"]_vars

\* Stop was clicked twice and both cancellations and the export resolved: the
\* dialog holds both exportSuccessful and exportCancelled and shows 'Export
\* Cancelled'
C27_Witness ==
    /\ dialog.exportCancelled
    /\ dialog.exportSuccessful
    /\ \E k \in DOMAIN promises.export : promises.export[k].state = "settled"
    /\ Len(promises.cancel) = 2
    /\ \A k \in DOMAIN promises.cancel : promises.cancel[k] = "settled"
    /\ ExportDialogView(dialog) = "Export Cancelled"

====
